---- MODULE Spec2Model ----
(***************************************************************************)
(* Verification model of the switch-tools packages:                        *)
(*   - packages/nca        assembleNca            (specification SpecNca)  *)
(*   - packages/ncz        decompressNcz          (specification SpecNcz)  *)
(*   - packages/hacbrewpack buildNsp              (specification SpecNsp)  *)
(* Byte strings are modelled symbolically: a digest, a signature or a      *)
(* ciphertext is a term recording the primitive and the exact input it was *)
(* applied to, so two values are equal only if they were computed the same *)
(* way from the same bytes.                                                *)
(***************************************************************************)
EXTENDS Integers, Sequences, FiniteSets, TLC

\* ------------------------------------------------------------------------
\* State
\* ------------------------------------------------------------------------
VARIABLES
    asmPc,          \* position inside assembleNca
    asmIn,          \* the arguments: sections and options
    fsHeaderObj,    \* sections[i].fsHeader, the caller's arrays (mutated in place)
    sectionOffsets, \* sectionOffsets[]
    nca,            \* the envelope `nca` (header regions and section bodies)
    asmResult,      \* the returned NcaResult (Zero before the return)
    asmLog          \* the envelope-changing steps taken so far, in order

asmVars == <<asmPc, asmIn, fsHeaderObj, sectionOffsets, nca, asmResult, asmLog>>

VARIABLES
    nczFile,     \* the input Blob (see NczFiles) and the caller's options
    nczPc,       \* position inside decompressNcz / the stream's start()
    parsed,      \* sections, blockHeader, blocks, compressedDataOffset, ncaSize
    written,     \* `written`
    blockIdx,    \* the block loop's i
    srcPos,      \* how much the zstd decoder has handed out (stream mode)
    nReads,      \* reader.read() calls that returned a value
    acc,         \* accumulator[0 .. accOffset)
    accOffset,   \* `accOffset`
    rs,          \* the ReadableStream: state, queue, closeRequested, storedError
    mode,        \* the branch taken at line 370: "block" or "stream"
    failure,     \* the error thrown inside start(), "none" so far
    emitted,     \* every chunk passed to controller.enqueue, in order
    delivered,   \* the chunks the consumer has read, in order
    consumerSaw  \* what the consumer's last read reported: value, done or error

nczVars == <<nczFile, nczPc, parsed, written, blockIdx, srcPos, nReads, acc, accOffset,
             rs, mode, failure, emitted, delivered, consumerSaw>>

VARIABLES
    nspPc,          \* position inside buildNsp
    nspIn,          \* the options: exefs, control, htmldoc, legalinfo, romfs
    ncasBuilt,      \* the NcaResults created so far, in creation order
    ncaIds,         \* `ncaIds`
    contentRecords, \* `contentRecords`
    cnmtData,       \* `cnmtData` (Zero before it is built)
    nspFiles,       \* `nspFiles`
    nspResult,      \* the returned HacbrewpackResult (Zero before the return)
    nspError        \* the error buildNsp threw, "none" so far

nspVars == <<nspPc, nspIn, ncasBuilt, ncaIds, contentRecords, cnmtData, nspFiles, nspResult,
             nspError>>

VARIABLES
    romPc,      \* "encode", "decode" or "done"
    romFs,      \* the RomFsEntry given to encode
    romImage,   \* the Blob encode returned (Zero before)
    romOut      \* what decode returned (Zero before)

romVars == <<romPc, romFs, romImage, romOut>>

VARIABLES
    xtsPc,      \* "encrypt", "decrypt" or "done"
    xtsIn,      \* key, data, sectorSize and startSector given to both calls
    xtsCipher,  \* what encrypt returned (Zero before)
    xtsPlain    \* what decrypt returned (Zero before)

xtsVars == <<xtsPc, xtsIn, xtsCipher, xtsPlain>>

VARIABLES
    pfsPc,      \* "build", "hash" or "done"
    pfsIn,      \* the files given to buildPfs0 and the hash block size
    pfsOut,     \* the buffer buildPfs0 returned (Zero before)
    pfsHash     \* what createPfs0HashTable returned (Zero before)

pfsVars == <<pfsPc, pfsIn, pfsOut, pfsHash>>

VARIABLES
    ivfcPc,          \* "level" or "done"
    ivfcData,        \* the data given to build (level 6)
    ivfcSource,      \* currentSource
    ivfcLevels,      \* levelData, level 1 first
    ivfcHashSizes,   \* levelHashDataSizes
    ivfcPaddedSizes, \* levelPaddedSizes
    ivfcOut          \* what build returned (Zero before)

ivfcVars == <<ivfcPc, ivfcData, ivfcSource, ivfcLevels, ivfcHashSizes, ivfcPaddedSizes, ivfcOut>>

VARIABLES
    progIn      \* the options createProgramNca was called with (Zero: not called)

progVars == <<progIn>>

VARIABLES
    npdmPc,     \* "idle", "call" (processNpdm about to run), "done"
    npdmIn,     \* the NPDM image and the options processNpdm is called with
    npdmOut     \* what processNpdm returned or threw

npdmVars == <<npdmPc, npdmIn, npdmOut>>

VARIABLES
    keysPc,     \* where initializeKeySet stands: "load", one of deriveKeys' loops, "return", "done"
    keysFile,   \* the names the keyfile gives a value for
    keysFull,   \* the FullKeySet being derived
    keysOut     \* the KeySet returned

keysVars == <<keysPc, keysFile, keysFull, keysOut>>

VARIABLES
    kfPc,       \* "parse", "load", "done"
    kfText,     \* what the keyfile line `header_key = ...` has after the `=`
    kfValue,    \* the value parseKeyFile keeps for header_key
    kfOut       \* what loading gave: the bytes of header_key, or the error thrown

kfVars == <<kfPc, kfText, kfValue, kfOut>>

VARIABLES
    cnmtPc,     \* "call" (build about to run), "done"
    cnmtIn,     \* the CnmtOptions build is called with
    cnmtOut     \* the bytes build returned

cnmtVars == <<cnmtPc, cnmtIn, cnmtOut>>

VARIABLES
    xciPc,      \* "call" (parseXci about to run), "done"
    xciBlob,    \* the blob parseXci is called with
    xciOut      \* what parseXci returned or threw

xciVars == <<xciPc, xciBlob, xciOut>>

VARIABLES
    gfIn,       \* the tweak before any doubling
    gfBlock,    \* the tweak buffer gf128Mul works on
    gfCount     \* how many times it was doubled

gfVars == <<gfIn, gfBlock, gfCount>>

VARIABLES
    reSections,     \* the section table
    reBodyOffset,   \* bodyOffset
    reData,         \* data
    reDataOff,      \* dataOff
    reResult,       \* result[0 .. dataOff)
    reLast,         \* section index, currentOffset and chunkLen of the last iteration
    rePc            \* "loop", "returned", or the error thrown

reVars == <<reSections, reBodyOffset, reData, reDataOff, reResult, reLast, rePc>>

VARIABLES
    bsPc,           \* "header", "blocks", or the error thrown
    bsExp,          \* blockHeader.blockSizeExponent
    bsSizes,        \* blocks[i].size
    bsDsize,        \* blockHeader.decompressedSize
    bsIdx,          \* i
    bsExpected,     \* expectedSize of the blocks handled so far
    bsCompressed    \* isCompressed of the blocks handled so far

bsVars == <<bsPc, bsExp, bsSizes, bsDsize, bsIdx, bsExpected, bsCompressed>>

VARIABLES
    cachedKey,      \* the module's cachedKey: a key handle, 0 for null
    rsaImports,     \* how many times importKey was called
    rsaPc,          \* where each rsaSign call stands
    rsaKey          \* the key handle each call holds

rsaVars == <<cachedKey, rsaImports, rsaPc, rsaKey>>

vars == <<asmVars, nczVars, nspVars, romVars, xtsVars, pfsVars, ivfcVars, progVars, npdmVars, keysVars, kfVars, cnmtVars, xciVars, gfVars, reVars, bsVars, rsaVars>>

\* What a step of one package leaves alone: the state of the others
asmFrame == UNCHANGED <<nczVars, nspVars, romVars, xtsVars, pfsVars, ivfcVars, progVars, npdmVars, keysVars, kfVars, cnmtVars, xciVars, gfVars, reVars, bsVars, rsaVars>>

nczFrame == UNCHANGED <<asmVars, nspVars, romVars, xtsVars, pfsVars, ivfcVars, progVars, npdmVars, keysVars, kfVars, cnmtVars, xciVars, gfVars, reVars, bsVars, rsaVars>>

nspFrame == UNCHANGED <<asmVars, nczVars, romVars, xtsVars, pfsVars, ivfcVars, progVars, npdmVars, keysVars, kfVars, cnmtVars, xciVars, gfVars, reVars, bsVars, rsaVars>>

romFrame == UNCHANGED <<asmVars, nczVars, nspVars, xtsVars, pfsVars, ivfcVars, progVars, npdmVars, keysVars, kfVars, cnmtVars, xciVars, gfVars, reVars, bsVars, rsaVars>>
pfsFrame == UNCHANGED <<asmVars, nczVars, nspVars, romVars, xtsVars, ivfcVars, progVars, npdmVars, keysVars, kfVars, cnmtVars, xciVars, gfVars, reVars, bsVars, rsaVars>>
xtsFrame == UNCHANGED <<asmVars, nczVars, nspVars, romVars, pfsVars, ivfcVars, progVars, npdmVars, keysVars, kfVars, cnmtVars, xciVars, gfVars, reVars, bsVars, rsaVars>>
ivfcFrame == UNCHANGED <<asmVars, nczVars, nspVars, romVars, xtsVars, pfsVars, progVars, npdmVars, keysVars, kfVars, cnmtVars, xciVars, gfVars, reVars, bsVars, rsaVars>>
progFrame == UNCHANGED <<asmVars, nczVars, nspVars, romVars, xtsVars, pfsVars, ivfcVars, npdmVars, keysVars, kfVars, cnmtVars, xciVars, gfVars, reVars, bsVars, rsaVars>>
npdmFrame == UNCHANGED <<asmVars, nczVars, nspVars, romVars, xtsVars, pfsVars, ivfcVars, progVars, keysVars, kfVars, cnmtVars, xciVars, gfVars, reVars, bsVars, rsaVars>>
keysFrame == UNCHANGED <<asmVars, nczVars, nspVars, romVars, xtsVars, pfsVars, ivfcVars, progVars, npdmVars, kfVars, cnmtVars, xciVars, gfVars, reVars, bsVars, rsaVars>>
kfFrame == UNCHANGED <<asmVars, nczVars, nspVars, romVars, xtsVars, pfsVars, ivfcVars, progVars, npdmVars, keysVars, cnmtVars, xciVars, gfVars, reVars, bsVars, rsaVars>>
cnmtFrame == UNCHANGED <<asmVars, nczVars, nspVars, romVars, xtsVars, pfsVars, ivfcVars, progVars, npdmVars, keysVars, kfVars, xciVars, gfVars, reVars, bsVars, rsaVars>>
xciFrame == UNCHANGED <<asmVars, nczVars, nspVars, romVars, xtsVars, pfsVars, ivfcVars, progVars, npdmVars, keysVars, kfVars, cnmtVars, gfVars, reVars, bsVars, rsaVars>>
gfFrame == UNCHANGED <<asmVars, nczVars, nspVars, romVars, xtsVars, pfsVars, ivfcVars, progVars, npdmVars, keysVars, kfVars, cnmtVars, xciVars, reVars, bsVars, rsaVars>>
reFrame == UNCHANGED <<asmVars, nczVars, nspVars, romVars, xtsVars, pfsVars, ivfcVars, progVars, npdmVars, keysVars, kfVars, cnmtVars, xciVars, gfVars, bsVars, rsaVars>>
bsFrame == UNCHANGED <<asmVars, nczVars, nspVars, romVars, xtsVars, pfsVars, ivfcVars, progVars, npdmVars, keysVars, kfVars, cnmtVars, xciVars, gfVars, reVars, rsaVars>>
rsaFrame == UNCHANGED <<asmVars, nczVars, nspVars, romVars, xtsVars, pfsVars, ivfcVars, progVars, npdmVars, keysVars, kfVars, cnmtVars, xciVars, gfVars, reVars, bsVars>>

\* ------------------------------------------------------------------------
\* Generic helpers
\* ------------------------------------------------------------------------
Min(a, b) == IF a < b THEN a ELSE b

Max(a, b) == IF a > b THEN a ELSE b

Range(s) == {s[i] : i \in 1..Len(s)}

RECURSIVE SumSeq(_)
SumSeq(s) == IF s = <<>> THEN 0 ELSE s[1] + SumSeq(Tail(s))

\* All sequences over S of length 0..n
SeqsUpTo(S, n) == UNION {[1..k -> S] : k \in 0..n}

\* Position of the first occurrence of x in s, 0 when absent
IndexOf(s, x) ==
    IF \E i \in 1..Len(s) : s[i] = x
    THEN CHOOSE i \in 1..Len(s) : s[i] = x /\ \A j \in 1..(i - 1) : s[j] # x
    ELSE 0

\* ========================================================================
\* packages/nca/src/index.ts : assembleNca
\* ========================================================================
NCA_HEADER_SIZE == 3072

MEDIA_UNIT == 512

CRYPT_NONE == 1

CRYPT_CTR == 3

\* Bounds of the assembleNca inputs
MaxSections == 2

SectionLens == {1, MEDIA_UNIT, MEDIA_UNIT + 1}

KeyGenerations == {1, 3}

\* align(value, alignment), alignment a power of two
align(value, alignment) == ((value + alignment - 1) \div alignment) * alignment

\* crypto.ts sha256: the digest of exactly these bytes
sha256(data) == [prim |-> "sha256", of |-> data]

\* rsa.ts rsaSign: the signature over exactly these bytes
rsaSign(data) == [prim |-> "rsa-pss", of |-> data]

\* crypto.ts aesEcbEncrypt
aesEcbEncrypt(key, data) == [prim |-> "aes-ecb", key |-> key, of |-> data]

\* crypto.ts aesCtrEncrypt
aesCtrEncrypt(key, data, ctr) == [prim |-> "aes-ctr", key |-> key, ctr |-> ctr, of |-> data]

\* aes-xts encrypt bound to keys.headerKey
aesXtsEncrypt(data, sectorSize, startSector) ==
    [prim |-> "aes-xts", sectorSize |-> sectorSize, startSector |-> startSector, of |-> data]

\* DataView.setUint32(off, v, true) into 8 zero bytes at off = 0
U32LEin8(v) == <<v % 256, (v \div 256) % 256, (v \div 65536) % 256, (v \div 16777216) % 256, 0, 0, 0, 0>>

\* crypto.ts buildNcaCtr: high 8 bytes = reversed section_ctr, low 8 bytes = BE(byteOffset / 16)
buildNcaCtr(sectionCtr, byteOffset) ==
    [hi |-> [j \in 1..8 |-> sectionCtr[9 - j]], blk |-> byteOffset \div 16]

\* Bytes that are still zero after allocation
Zero == [prim |-> "zero"]

\* An fsHeader as built by buildPfs0Section / buildRomfsSection: crypt_type and
\* section_ctr are still zero
FreshFsHeader(id) == [super |-> id, cryptType |-> 0, sectionCtr |-> U32LEin8(0)]

AsmSection == [len : SectionLens, cryptType : {CRYPT_NONE, CRYPT_CTR}]

AsmInputs ==
    [sections : UNION {[1..k -> AsmSection] : k \in 1..MaxSections},
     keyGeneration : KeyGenerations,
     plaintext : BOOLEAN,
     sign : BOOLEAN]

NSec == Len(asmIn.sections)

\* The length of section i as given, not padded
RawLen(i) == asmIn.sections[i].len

PaddedLen(i) == align(asmIn.sections[i].len, MEDIA_UNIT)

\* The envelope right after `new Uint8Array(totalSize)`: all zero
ZeroNca(n) ==
    [sig       |-> Zero,
     fields    |-> Zero,
     entries   |-> [i \in 1..n |-> Zero],
     hashes    |-> [i \in 1..n |-> Zero],
     keyArea   |-> Zero,
     fsHdr     |-> [i \in 1..n |-> Zero],
     hdrCipher |-> Zero,
     body      |-> [i \in 1..n |-> Zero],
     size      |-> 0]

\* nca.subarray(0x200, 0x400): header fields, section entries, hashes, key area
SignedRegion(e) ==
    [fields |-> e.fields, entries |-> e.entries, hashes |-> e.hashes,
     keyArea |-> e.keyArea, hdrCipher |-> e.hdrCipher]

\* nca.subarray(0, NCA_HEADER_SIZE)
HeaderRegion(e) ==
    [sig |-> e.sig, fields |-> e.fields, entries |-> e.entries, hashes |-> e.hashes,
     keyArea |-> e.keyArea, fsHdr |-> e.fsHdr]

AsmInit ==
    /\ asmPc = "layout"
    /\ asmIn \in AsmInputs
    /\ fsHeaderObj = [i \in 1..Len(asmIn.sections) |-> FreshFsHeader(i)]
    /\ sectionOffsets = <<>>
    /\ nca = ZeroNca(0)
    /\ asmResult = Zero
    /\ asmLog = <<>>

\* lines 288-306: offsets, allocation, section data
AsmLayout ==
    /\ asmPc = "layout"
    /\ LET offs == [i \in 1..NSec |->
                      NCA_HEADER_SIZE + SumSeq([j \in 1..(i - 1) |-> PaddedLen(j)])]
           total == NCA_HEADER_SIZE + SumSeq([j \in 1..NSec |-> PaddedLen(j)])
       IN /\ sectionOffsets' = offs
          /\ nca' = [ZeroNca(NSec) EXCEPT
                       !.size = total,
                       !.body = [i \in 1..NSec |->
                                   [data |-> i, len |-> PaddedLen(i), enc |-> Zero]]]
    /\ asmPc' = "header"
    /\ asmLog' = Append(asmLog, "layout")
    /\ UNCHANGED <<asmIn, fsHeaderObj, asmResult>>
    /\ asmFrame

\* lines 308-350: header fields and section entries
AsmWriteHeader ==
    /\ asmPc = "header"
    /\ nca' = [nca EXCEPT
                 !.fields = [magic |-> "NCA3",
                             cryptoType |-> IF asmIn.keyGeneration = 1 THEN 0 ELSE 2,
                             size |-> nca.size,
                             cryptoType2 |-> IF asmIn.keyGeneration > 2
                                             THEN asmIn.keyGeneration ELSE 0],
                 !.entries = [i \in 1..NSec |->
                                [startMedia |-> sectionOffsets[i] \div MEDIA_UNIT,
                                 endMedia |-> (sectionOffsets[i] + PaddedLen(i)) \div MEDIA_UNIT]]]
    /\ asmPc' = "cryptType"
    /\ asmLog' = Append(asmLog, "header")
    /\ UNCHANGED <<asmIn, fsHeaderObj, sectionOffsets, asmResult>>
    /\ asmFrame

\* lines 353-355: sections[i].fsHeader[0x04] = sections[i].cryptType
AsmSetCryptType ==
    /\ asmPc = "cryptType"
    /\ fsHeaderObj' = [i \in 1..NSec |->
                         [fsHeaderObj[i] EXCEPT !.cryptType = asmIn.sections[i].cryptType]]
    /\ asmPc' = "hash1"
    /\ UNCHANGED <<asmIn, sectionOffsets, nca, asmResult, asmLog>>
    /\ asmFrame

\* lines 358-361: section hashes of the caller's fsHeader arrays
AsmFirstHashes ==
    /\ asmPc = "hash1"
    /\ nca' = [nca EXCEPT !.hashes = [i \in 1..NSec |-> sha256(fsHeaderObj[i])]]
    /\ asmPc' = "key"
    /\ asmLog' = Append(asmLog, "hash1")
    /\ UNCHANGED <<asmIn, fsHeaderObj, sectionOffsets, asmResult>>
    /\ asmFrame

\* line 365: the plaintext key-area key into slot 2
AsmPlaceKey ==
    /\ asmPc = "key"
    /\ nca' = [nca EXCEPT !.keyArea = [slot2 |-> "keyAreaKey"]]
    /\ asmPc' = "fsHeaders"
    /\ asmLog' = Append(asmLog, "key")
    /\ UNCHANGED <<asmIn, fsHeaderObj, sectionOffsets, asmResult>>
    /\ asmFrame

\* lines 368-370: the fsHeaders are copied into the envelope
AsmCopyFsHeaders ==
    /\ asmPc = "fsHeaders"
    /\ nca' = [nca EXCEPT !.fsHdr = [i \in 1..NSec |-> fsHeaderObj[i]]]
    /\ asmPc' = "sectionCtr"
    /\ asmLog' = Append(asmLog, "fsHeaders")
    /\ UNCHANGED <<asmIn, fsHeaderObj, sectionOffsets, asmResult>>
    /\ asmFrame

\* lines 373-378: setUint32(fsHeaderAbsOffset + 0x140, i, true), i counted from 0
AsmSetSectionCtr ==
    /\ asmPc = "sectionCtr"
    /\ nca' = [nca EXCEPT !.fsHdr = [i \in 1..NSec |->
                                       [nca.fsHdr[i] EXCEPT !.sectionCtr = U32LEin8(i - 1)]]]
    /\ asmPc' = "hash2"
    /\ asmLog' = Append(asmLog, "sectionCtr")
    /\ UNCHANGED <<asmIn, fsHeaderObj, sectionOffsets, asmResult>>
    /\ asmFrame

\* A build that forgets lines 380-388 and keeps the first hashes
AsmRehashSkipped ==
    /\ asmPc = "hash2"
    /\ asmPc' = "ctr"
    /\ asmLog' = Append(asmLog, "hash2")
    /\ UNCHANGED <<asmIn, fsHeaderObj, sectionOffsets, nca, asmResult>>
    /\ asmFrame

\* lines 381-388: section hashes recomputed from the envelope's fsHeader bytes
AsmRehash ==
    /\ asmPc = "hash2"
    /\ nca' = [nca EXCEPT !.hashes = [i \in 1..NSec |-> sha256(nca.fsHdr[i])]]
    /\ asmPc' = "ctr"
    /\ asmLog' = Append(asmLog, "hash2")
    /\ UNCHANGED <<asmIn, fsHeaderObj, sectionOffsets, asmResult>>
    /\ asmFrame

\* lines 393-421: AES-CTR over every section body that is not CRYPT_NONE
AsmEncryptBodies ==
    /\ asmPc = "ctr"
    /\ nca' = [nca EXCEPT !.body = [i \in 1..NSec |->
                 IF asmIn.plaintext \/ asmIn.sections[i].cryptType = CRYPT_NONE
                 THEN nca.body[i]
                 ELSE [nca.body[i] EXCEPT !.enc =
                         aesCtrEncrypt("keyAreaKey", nca.body[i].data,
                                       buildNcaCtr(nca.fsHdr[i].sectionCtr, sectionOffsets[i]))]]]
    /\ asmPc' = "ecb"
    /\ asmLog' = Append(asmLog, "ctr")
    /\ UNCHANGED <<asmIn, fsHeaderObj, sectionOffsets, asmResult>>
    /\ asmFrame

\* lines 424-429: AES-ECB over the key area 0x300..0x340
AsmEncryptKeyArea ==
    /\ asmPc = "ecb"
    /\ nca' = [nca EXCEPT !.keyArea =
                 aesEcbEncrypt(<<"keyAreaKeys", asmIn.keyGeneration - 1, 0>>, nca.keyArea)]
    /\ asmPc' = "sign"
    /\ asmLog' = Append(asmLog, "ecb")
    /\ UNCHANGED <<asmIn, fsHeaderObj, sectionOffsets, asmResult>>
    /\ asmFrame

\* lines 432-436: RSA-PSS over nca[0x200..0x400] into 0x100
AsmSign ==
    /\ asmPc = "sign"
    /\ IF asmIn.sign
       THEN /\ nca' = [nca EXCEPT !.sig = rsaSign(SignedRegion(nca))]
            /\ asmLog' = Append(asmLog, "sign")
       ELSE UNCHANGED <<nca, asmLog>>
    /\ asmPc' = "xts"
    /\ UNCHANGED <<asmIn, fsHeaderObj, sectionOffsets, asmResult>>
    /\ asmFrame

\* lines 439-444: AES-XTS over nca[0..0xC00]
AsmEncryptHeader ==
    /\ asmPc = "xts"
    /\ nca' = [nca EXCEPT !.hdrCipher = aesXtsEncrypt(HeaderRegion(nca), 512, 0)]
    /\ asmPc' = "hash"
    /\ asmLog' = Append(asmLog, "xts")
    /\ UNCHANGED <<asmIn, fsHeaderObj, sectionOffsets, asmResult>>
    /\ asmFrame

\* lines 447-455: NCA hash, NCA id and the result
AsmFinish ==
    /\ asmPc = "hash"
    /\ asmResult' = [data |-> nca, hash |-> sha256(nca), size |-> nca.size]
    /\ asmPc' = "done"
    /\ UNCHANGED <<asmIn, fsHeaderObj, sectionOffsets, nca, asmLog>>
    /\ asmFrame

AsmNext ==
    \/ AsmLayout
    \/ AsmWriteHeader
    \/ AsmSetCryptType
    \/ AsmFirstHashes
    \/ AsmPlaceKey
    \/ AsmCopyFsHeaders
    \/ AsmSetSectionCtr
    \/ AsmRehash
    \/ AsmEncryptBodies
    \/ AsmEncryptKeyArea
    \/ AsmSign
    \/ AsmEncryptHeader
    \/ AsmFinish


\* ========================================================================
\* packages/ncz/src/index.ts : decompressNcz
\* ========================================================================

NCZ_HEADER_SIZE == 16384

\* 0x4e54_4345_535a_434en as base-256 digits, most significant first
NCZ_SECTION_MAGIC == <<78, 84, 67, 69, 83, 90, 67, 78>>

\* 0x4e43_5a42_4c4f_434bn as base-256 digits, most significant first
NCZ_BLOCK_MAGIC == <<78, 67, 90, 66, 76, 79, 67, 75>>

NCZ_BLOCK_VERSION == 2

NCZ_BLOCK_TYPE == 1

SIZEOF_NCZ_HEADER == 16

SIZEOF_NCZ_SECTION == 48

SIZEOF_NCZ_BLOCK_HEADER == 24

SIZEOF_NCZ_BLOCK_ENTRY == 4

ENCRYPTION_TYPE_AES_CTR == 3

FLUSH_SIZE == 4194304

\* ---- integers and bytes ------------------------------------------------
Pow256(j) == CASE j = 0 -> 1 [] j = 1 -> 256 [] j = 2 -> 65536 [] j = 3 -> 16777216

\* v < 2^31 as n little-endian bytes (what a writer's setUint32 / setBigUint64 stores)
LE(v, n) == [j \in 1..n |-> IF j <= 4 THEN (v \div Pow256(j - 1)) % 256 ELSE 0]

Zeros(n) == [j \in 1..n |-> 0]

\* ArrayBuffer.slice(a, b) / Blob.slice(a, b): clamped to the buffer, offsets from 0
BufSlice(buf, a, b) == SubSeq(buf, Min(a, Len(buf)) + 1, Min(b, Len(buf)))

\* DataView.getBigUint64(off, true): the value as base-256 digits, most significant
\* first (a u64 does not fit TLC's integers; equality of values is equality of digits)
getBigUint64LE(buf, off) == [j \in 1..8 |-> buf[off + 9 - j]]

\* DataView.getUint32(off, true)
getUint32LE(buf, off) == [j \in 1..4 |-> buf[off + 5 - j]]

\* Number(v) of a value given by its digits
RECURSIVE Num(_)
Num(d) == IF d = <<>> THEN 0 ELSE Num(SubSeq(d, 1, Len(d) - 1)) * 256 + d[Len(d)]

\* `1 << e` on 32-bit integers: the shift count is taken modulo 32
Shl1(e) ==
    LET c == e % 32
    IN IF c = 31 THEN (-2147483647) - 1
       ELSE IF c >= 24 THEN Pow256(3) * (CASE c = 24 -> 1 [] c = 25 -> 2 [] c = 26 -> 4
                                          [] c = 27 -> 8 [] c = 28 -> 16 [] c = 29 -> 32
                                          [] c = 30 -> 64)
       ELSE IF c >= 16 THEN Pow256(2) * (CASE c = 16 -> 1 [] c = 17 -> 2 [] c = 18 -> 4
                                          [] c = 19 -> 8 [] c = 20 -> 16 [] c = 21 -> 32
                                          [] c = 22 -> 64 [] c = 23 -> 128)
       ELSE IF c >= 8 THEN Pow256(1) * (CASE c = 8 -> 1 [] c = 9 -> 2 [] c = 10 -> 4
                                         [] c = 11 -> 8 [] c = 12 -> 16 [] c = 13 -> 32
                                         [] c = 14 -> 64 [] c = 15 -> 128)
       ELSE (CASE c = 0 -> 1 [] c = 1 -> 2 [] c = 2 -> 4 [] c = 3 -> 8 [] c = 4 -> 16
             [] c = 5 -> 32 [] c = 6 -> 64 [] c = 7 -> 128)

\* ---- the input files ---------------------------------------------------
\* An NCZ file is described by what its writer put into it; FileLit lays the
\* metadata out byte by byte.  recSize is the size of the section records the
\* writer used; magic is the byte order of the block magic in the file.
MaxNczSections == 2

MaxBlocks == 2

BlockExp == 14

\* compressed size of a zstd-compressed block, and of the zstd stream
CompressedLen == 256

\* 'N','C','Z','S','E','C','T','N' in file order
SectionMagicBytes == <<78, 67, 90, 83, 69, 67, 84, 78>>

\* 'N','C','Z','B','L','O','C','K' in file order
BlockMagicBytes == <<78, 67, 90, 66, 76, 79, 67, 75>>

\* the same eight letters in the opposite order
BlockMagicReversed == <<75, 67, 79, 76, 66, 90, 67, 78>>

\* the first bytes of a zstd frame (magic 0xFD2FB528, little-endian)
DataHead == <<40, 181, 47, 253>> \o Zeros(20)

KeyOf(i) == <<16 + i>> \o Zeros(15)

CounterOf(i) == <<32 + i>> \o Zeros(15)

\* k contiguous sections of secSize bytes from NCA offset `start`
SectionTable(k, start, secSize, firstPlain) ==
    [i \in 1..k |->
        [offset |-> start + (i - 1) * secSize,
         size |-> secSize,
         cryptoType |-> IF firstPlain /\ i = 1 THEN 1 ELSE ENCRYPTION_TYPE_AES_CTR,
         key |-> KeyOf(i),
         counter |-> CounterOf(i)]]

SectionTables ==
    {<<>>} \cup
    {SectionTable(k, start, secSize, fp) :
        k \in 1..MaxNczSections, start \in {0, NCZ_HEADER_SIZE},
        secSize \in {20480, 5242880}, fp \in BOOLEAN}

\* Block-mode bodies: n blocks of 2^BlockExp decompressed bytes, the last one
\* `lastLen` long; a block is stored (not compressed) or zstd-compressed, and a
\* compressed block may be corrupt
BlockBodies ==
    {[mode |-> "block", magic |-> m, exp |-> BlockExp,
      dsize |-> IF n = 0 THEN 0 ELSE (n - 1) * Shl1(BlockExp) + lastLen,
      blocks |-> [i \in 1..n |->
                    [dlen |-> IF i = n THEN lastLen ELSE Shl1(BlockExp),
                     stored |-> (firstStored /\ i = 1),
                     ok |-> ~(lastCorrupt /\ i = n)]],
      streamLen |-> 0, streamOk |-> TRUE] :
        m \in {BlockMagicBytes, BlockMagicReversed}, n \in 0..MaxBlocks,
        lastLen \in {8192, Shl1(BlockExp)}, firstStored \in BOOLEAN,
        lastCorrupt \in BOOLEAN}

StreamBodies ==
    {[mode |-> "stream", magic |-> <<>>, exp |-> 0, dsize |-> 0, blocks |-> <<>>,
      streamLen |-> len, streamOk |-> ok] :
        len \in {24576, FLUSH_SIZE + 16}, ok \in BOOLEAN}

\* The caller's options and crypto backend
NczEnvs ==
    {[decompressBlob |-> TRUE, decompressStream |-> TRUE, importOk |-> TRUE, aesOk |-> TRUE],
     [decompressBlob |-> FALSE, decompressStream |-> TRUE, importOk |-> TRUE, aesOk |-> TRUE],
     [decompressBlob |-> TRUE, decompressStream |-> FALSE, importOk |-> TRUE, aesOk |-> TRUE],
     [decompressBlob |-> TRUE, decompressStream |-> TRUE, importOk |-> FALSE, aesOk |-> TRUE],
     [decompressBlob |-> TRUE, decompressStream |-> TRUE, importOk |-> TRUE, aesOk |-> FALSE]}

NczFiles ==
    {[recSize |-> r, secs |-> t, body |-> b, env |-> e] :
        r \in {SIZEOF_NCZ_SECTION, 64}, t \in SectionTables,
        b \in BlockBodies \cup StreamBodies, e \in NczEnvs}

CSize(blk) == IF blk.stored THEN blk.dlen ELSE CompressedLen

SecBytes(sec, recSize) ==
    LE(sec.offset, 8) \o LE(sec.size, 8) \o LE(sec.cryptoType, 8) \o Zeros(8) \o sec.key
        \o (IF recSize >= 64 THEN sec.counter ELSE <<>>)

RECURSIVE Flatten(_)
Flatten(ss) == IF ss = <<>> THEN <<>> ELSE ss[1] \o Flatten(Tail(ss))

DataLen(f) ==
    IF f.body.mode = "block"
    THEN SumSeq([i \in 1..Len(f.body.blocks) |-> CSize(f.body.blocks[i])])
    ELSE CompressedLen

\* The literal bytes of the file from offset 0x4000 up to 24 bytes into the data
FileLit(f) ==
    SectionMagicBytes \o LE(Len(f.secs), 8)
    \o Flatten([i \in 1..Len(f.secs) |-> SecBytes(f.secs[i], f.recSize)])
    \o (IF f.body.mode = "block"
        THEN f.body.magic \o <<NCZ_BLOCK_VERSION, NCZ_BLOCK_TYPE, 0, f.body.exp>>
             \o LE(Len(f.body.blocks), 4) \o LE(f.body.dsize, 8)
             \o Flatten([i \in 1..Len(f.body.blocks) |-> LE(CSize(f.body.blocks[i]), 4)])
        ELSE <<>>)
    \o SubSeq(DataHead, 1, Min(Len(DataHead), DataLen(f)))

\* Where the writer put the compressed data
DataStart(f) ==
    NCZ_HEADER_SIZE + SIZEOF_NCZ_HEADER + f.recSize * Len(f.secs)
    + (IF f.body.mode = "block"
       THEN SIZEOF_NCZ_BLOCK_HEADER + SIZEOF_NCZ_BLOCK_ENTRY * Len(f.body.blocks)
       ELSE 0)

FileSize(f) == DataStart(f) + DataLen(f)

\* File offset of block i's (compressed or stored) bytes
BlockStart(f, i) == DataStart(f) + SumSeq([j \in 1..(i - 1) |-> CSize(f.body.blocks[j])])

\* Offset of block i's first byte in the decompressed body
BlockPos(f, i) == SumSeq([j \in 1..(i - 1) |-> f.body.blocks[j].dlen])

\* await blob.slice(a, b).arrayBuffer() inside the metadata
BlobLit(f, a, b) ==
    BufSlice(FileLit(f), Max(a, NCZ_HEADER_SIZE) - NCZ_HEADER_SIZE,
             Max(Min(b, FileSize(f)), NCZ_HEADER_SIZE) - NCZ_HEADER_SIZE)

\* ---- lines 152-274: parsing ---------------------------------------------
NoParse == [err |-> "none", sections |-> <<>>, blockHeader |-> [present |-> FALSE],
            blocks |-> <<>>, blockHeaderOffset |-> 0, compressedDataOffset |-> 0,
            ncaSize |-> 0]

\* lines 177-193: section i (counted from 0) out of sectionsBuf
ParseSection(sectionsBuf, sectionsOffset, i) ==
    LET off == i * SIZEOF_NCZ_SECTION
    IN [offset |-> Num(getBigUint64LE(sectionsBuf, off + 0)),
        size |-> Num(getBigUint64LE(sectionsBuf, off + 8)),
        cryptoType |-> Num(getBigUint64LE(sectionsBuf, off + 16)),
        key |-> BufSlice(sectionsBuf, off + 32, off + 32 + 16),
        counter |-> BufSlice(sectionsBuf, off + 32 + 16, off + 32 + 32),
        \* the file offsets the fields were taken from
        fieldsAt |-> <<sectionsOffset + off, sectionsOffset + off + 24>>,
        keyAt |-> <<sectionsOffset + Min(off + 32, Len(sectionsBuf)),
                    sectionsOffset + Min(off + 48, Len(sectionsBuf))>>,
        counterAt |-> <<sectionsOffset + Min(off + 48, Len(sectionsBuf)),
                        sectionsOffset + Min(off + 64, Len(sectionsBuf))>>]

\* lines 207-255: the block header and the block table
ParseBlocks(f, blockHeaderBuf, blockHeaderOffset) ==
    LET version == blockHeaderBuf[9]
        type == blockHeaderBuf[10]
        blockSizeExponent == blockHeaderBuf[12]
        blockCount == Num(getUint32LE(blockHeaderBuf, 12))
        decompressedSize == Num(getBigUint64LE(blockHeaderBuf, 16))
        blockArrayOffset == blockHeaderOffset + SIZEOF_NCZ_BLOCK_HEADER
        blockArraySize == blockCount * SIZEOF_NCZ_BLOCK_ENTRY
        blockArrayBuf == BlobLit(f, blockArrayOffset, blockArrayOffset + blockArraySize)
        cdo == blockArrayOffset + blockArraySize
        sizes == [i \in 1..blockCount |-> Num(getUint32LE(blockArrayBuf, (i - 1) * 4))]
    IN IF version # NCZ_BLOCK_VERSION THEN [err |-> "version"]
       ELSE IF type # NCZ_BLOCK_TYPE THEN [err |-> "type"]
       ELSE IF blockSizeExponent < 14 \/ blockSizeExponent > 32 THEN [err |-> "exponent"]
       ELSE IF Len(blockArrayBuf) < blockArraySize THEN [err |-> "RangeError"]
       ELSE [err |-> "none",
             blockHeader |-> [present |-> TRUE, version |-> version, type |-> type,
                              blockSizeExponent |-> blockSizeExponent,
                              blockCount |-> blockCount,
                              decompressedSize |-> decompressedSize],
             blocks |-> [i \in 1..blockCount |->
                           [offset |-> cdo + SumSeq([j \in 1..(i - 1) |-> sizes[j]]),
                            size |-> sizes[i]]],
             compressedDataOffset |-> cdo]

\* max over the sections of offset + size (lines 268-273)
RECURSIVE MaxEnd(_)
MaxEnd(secs) ==
    IF secs = <<>> THEN 0 ELSE Max(secs[1].offset + secs[1].size, MaxEnd(Tail(secs)))

ParseNcz(f) ==
    LET sectionHeaderBuf == BlobLit(f, NCZ_HEADER_SIZE, NCZ_HEADER_SIZE + SIZEOF_NCZ_HEADER)
        sectionCount == Num(getBigUint64LE(sectionHeaderBuf, 8))
        sectionsOffset == NCZ_HEADER_SIZE + SIZEOF_NCZ_HEADER
        sectionsSize == sectionCount * SIZEOF_NCZ_SECTION
        sectionsBuf == BlobLit(f, sectionsOffset, sectionsOffset + sectionsSize)
        sections == [i \in 1..sectionCount |-> ParseSection(sectionsBuf, sectionsOffset, i - 1)]
        blockHeaderOffset == sectionsOffset + sectionsSize
        blockHeaderBuf == BlobLit(f, blockHeaderOffset, blockHeaderOffset + SIZEOF_NCZ_BLOCK_HEADER)
    IN IF Len(sectionHeaderBuf) < SIZEOF_NCZ_HEADER THEN [NoParse EXCEPT !.err = "RangeError"]
       ELSE IF getBigUint64LE(sectionHeaderBuf, 0) # NCZ_SECTION_MAGIC
            THEN [NoParse EXCEPT !.err = "NotNcz"]
       ELSE IF Len(sectionsBuf) < sectionsSize \/ Len(blockHeaderBuf) < 8
            THEN [NoParse EXCEPT !.err = "RangeError"]
       ELSE IF getBigUint64LE(blockHeaderBuf, 0) = NCZ_BLOCK_MAGIC
            THEN IF Len(blockHeaderBuf) < SIZEOF_NCZ_BLOCK_HEADER
                 THEN [NoParse EXCEPT !.err = "RangeError"]
                 ELSE LET b == ParseBlocks(f, blockHeaderBuf, blockHeaderOffset)
                      IN IF b.err # "none" THEN [NoParse EXCEPT !.err = b.err]
                         ELSE [err |-> "none", sections |-> sections,
                               blockHeader |-> b.blockHeader, blocks |-> b.blocks,
                               blockHeaderOffset |-> blockHeaderOffset,
                               compressedDataOffset |-> b.compressedDataOffset,
                               ncaSize |-> NCZ_HEADER_SIZE + b.blockHeader.decompressedSize]
       ELSE [err |-> "none", sections |-> sections,
             blockHeader |-> [present |-> FALSE], blocks |-> <<>>,
             blockHeaderOffset |-> blockHeaderOffset,
             compressedDataOffset |-> blockHeaderOffset,
             ncaSize |-> MaxEnd(sections)]

\* ---- byte strings --------------------------------------------------------
\* A byte string is a sequence of runs.  A run is `len` consecutive bytes of
\* one source (src = "hdr": the file's first 0x4000 bytes, "body": the
\* decompressed NCA body, "file": other bytes of the file) starting at `pos`.
\* A run that went through AES-CTR carries the key, the counter's first eight
\* bytes and `ks`, the keystream position of its first byte (16 * block number
\* + byte within the block); key = <<>> means not encrypted.
Run(src, pos, len) == [src |-> src, pos |-> pos, len |-> len, key |-> <<>>, nonce |-> <<>>, ks |-> 0]

RECURSIVE BLen(_)
BLen(bs) == IF bs = <<>> THEN 0 ELSE bs[1].len + BLen(Tail(bs))

Joins(a, b) ==
    /\ a.src = b.src /\ a.key = b.key /\ a.nonce = b.nonce
    /\ b.pos = a.pos + a.len
    /\ (a.key # <<>> => b.ks = a.ks + a.len)

\* Canonical form: no empty run, adjacent runs that continue each other merged
RECURSIVE BNorm(_)
BNorm(bs) ==
    IF bs = <<>> THEN <<>>
    ELSE IF bs[1].len = 0 THEN BNorm(Tail(bs))
    ELSE LET rest == BNorm(Tail(bs))
         IN IF rest # <<>> /\ Joins(bs[1], rest[1])
            THEN <<[bs[1] EXCEPT !.len = bs[1].len + rest[1].len]>> \o Tail(rest)
            ELSE <<bs[1]>> \o rest

BCat(a, b) == BNorm(a \o b)

\* Uint8Array.subarray(a, b)
RECURSIVE BSlice(_, _, _)
BSlice(bs, a, b) ==
    IF bs = <<>> \/ b <= a THEN <<>>
    ELSE LET r == bs[1]
         IN IF a >= r.len THEN BSlice(Tail(bs), a - r.len, b - r.len)
            ELSE LET take == Min(b, r.len) - a
                 IN <<[r EXCEPT !.pos = r.pos + a, !.len = take,
                                !.ks = IF r.key = <<>> THEN 0 ELSE r.ks + a]>>
                    \o BSlice(Tail(bs), 0, b - r.len)

\* subtle.encrypt({name: 'AES-CTR', counter, length: 128}, key, data): byte d of
\* the data is XORed with keystream byte 16 * blockNum + d
RECURSIVE CtrFrom(_, _, _, _)
CtrFrom(bs, key, nonce, ks) ==
    IF bs = <<>> THEN <<>>
    ELSE <<[bs[1] EXCEPT !.key = key, !.nonce = nonce, !.ks = ks]>>
         \o CtrFrom(Tail(bs), key, nonce, ks + bs[1].len)

AesCtr(key, nonce, blockNum, bs) == BNorm(CtrFrom(bs, key, nonce, 16 * blockNum))

\* The bytes with the encryption forgotten: which plaintext is where
RECURSIVE Plain(_)
Plain(bs) ==
    IF bs = <<>> THEN <<>>
    ELSE <<Run(bs[1].src, bs[1].pos, bs[1].len)>> \o Plain(Tail(bs))

\* ---- the file's contents -------------------------------------------------
\* Length of the decompressed NCA body the file holds
BodyLen(f) == IF f.body.mode = "block" THEN f.body.dsize ELSE f.body.streamLen

\* await blob.slice(a, b).arrayBuffer() of data bytes: a stored block's bytes are
\* the body's bytes
BlobData(f, a, b) ==
    LET e == Min(b, FileSize(f))
        hits == {i \in 1..Len(f.body.blocks) :
                    /\ f.body.blocks[i].stored
                    /\ BlockStart(f, i) = a
                    /\ BlockStart(f, i) + CSize(f.body.blocks[i]) = e}
    IN IF hits # {}
       THEN LET i == CHOOSE i \in hits : TRUE
            IN <<Run("body", BlockPos(f, i), f.body.blocks[i].dlen)>>
       ELSE BNorm(<<Run("file", a, Max(e - a, 0))>>)

\* options.decompressBlob(blob.slice(a, b)): the block's bytes if [a, b) is one
\* intact zstd-compressed block of the file, a zstd error otherwise
DecompressBlob(f, a, b) ==
    LET hits == {i \in 1..Len(f.body.blocks) :
                    /\ ~f.body.blocks[i].stored
                    /\ f.body.blocks[i].ok
                    /\ BlockStart(f, i) = a
                    /\ BlockStart(f, i) + CSize(f.body.blocks[i]) = b}
    IN IF hits # {}
       THEN LET i == CHOOSE i \in hits : TRUE
            IN [err |-> "none", out |-> <<Run("body", BlockPos(f, i), f.body.blocks[i].dlen)>>]
       ELSE [err |-> "zstd", out |-> <<>>]

\* Whether blob.slice(compressedDataOffset) is the file's zstd stream
IsZstdStream(f, from) == f.body.mode = "stream" /\ from = DataStart(f)

\* A corrupt stream decodes its first half and then fails
StreamGoodLen(f) == IF f.body.streamOk THEN f.body.streamLen ELSE f.body.streamLen \div 2

\* ---- lines 308-367: findSection and reencrypt ------------------------------
\* The last section covering the offset instead of the first
findLastSection(sections, offset) ==
    IF \E i \in 1..Len(sections) :
          offset >= sections[i].offset /\ offset < sections[i].offset + sections[i].size
    THEN CHOOSE i \in 1..Len(sections) :
          /\ offset >= sections[i].offset /\ offset < sections[i].offset + sections[i].size
          /\ \A j \in (i + 1)..Len(sections) :
                ~(offset >= sections[j].offset /\ offset < sections[j].offset + sections[j].size)
    ELSE 0

\* Index of the first section covering the offset, 0 when there is none
findSection(sections, offset) ==
    IF \E i \in 1..Len(sections) :
          offset >= sections[i].offset /\ offset < sections[i].offset + sections[i].size
    THEN CHOOSE i \in 1..Len(sections) :
          /\ offset >= sections[i].offset /\ offset < sections[i].offset + sections[i].size
          /\ \A j \in 1..(i - 1) :
                ~(offset >= sections[j].offset /\ offset < sections[j].offset + sections[j].size)
    ELSE 0

\* counter.set(section.counter.subarray(0, 8), 0) into 16 zero bytes: bytes 0..8
CounterPrefix(counter) == [j \in 1..8 |-> IF j <= Len(counter) THEN counter[j] ELSE 0]

RECURSIVE ReencryptFrom(_, _, _, _, _, _)
ReencryptFrom(sections, aesOk, data, bodyOffset, dataOff, result) ==
    IF dataOff >= BLen(data) THEN [err |-> "none", out |-> BNorm(result)]
    ELSE LET currentOffset == bodyOffset + dataOff
             i == findSection(sections, currentOffset)
         IN IF i = 0 THEN [err |-> "NoSectionForOffset", out |-> <<>>]
            ELSE LET section == sections[i]
                     sectionEnd == section.offset + section.size
                     remaining == sectionEnd - currentOffset
                     chunkLen == Min(remaining, BLen(data) - dataOff)
                     chunk == BSlice(data, dataOff, dataOff + chunkLen)
                 IN IF section.cryptoType >= ENCRYPTION_TYPE_AES_CTR
                    THEN IF ~aesOk THEN [err |-> "aes", out |-> <<>>]
                         ELSE ReencryptFrom(sections, aesOk, data, bodyOffset,
                                  dataOff + chunkLen,
                                  result \o AesCtr(section.key, CounterPrefix(section.counter),
                                                   currentOffset \div 16, chunk))
                    ELSE ReencryptFrom(sections, aesOk, data, bodyOffset,
                                       dataOff + chunkLen, result \o chunk)

reencrypt(data, bodyOffset) ==
    ReencryptFrom(parsed.sections, nczFile.env.aesOk, data, bodyOffset, 0, <<>>)

\* ---- the ReadableStream's controller (WHATWG Streams) ----------------------
NewStream == [state |-> "readable", queue |-> <<>>, closeRequested |-> FALSE]

\* controller.enqueue(chunk) on a readable stream
ControllerEnqueue(s, chunks) == [s EXCEPT !.queue = s.queue \o chunks]

\* controller.close(): the stream closes once the queue is drained
ControllerClose(s) ==
    [s EXCEPT !.closeRequested = TRUE,
              !.state = IF s.queue = <<>> THEN "closed" ELSE s.state]

\* controller.error(err): the queue is dropped; a no-op unless readable
ControllerError(s) ==
    IF s.state = "readable"
    THEN [s EXCEPT !.state = "errored", !.queue = <<>>]
    ELSE s

\* A chunk handed to controller.enqueue; `at` is the bodyOffset its bytes were
\* re-encrypted at (the header chunk is not re-encrypted)
Chunk(kind, data, at) == [kind |-> kind, data |-> data, at |-> at]

\* ---- decompressNcz and the stream's start() --------------------------------
\* Sizes of the chunks the zstd decoder hands out, and how many reads the
\* decoder may take before it hands out all that is left
StreamChunkSizes == {8193, FLUSH_SIZE, FLUSH_SIZE + 5}

MaxReads == 3

NczInit ==
    /\ nczFile \in NczFiles
    /\ nczPc = "init"
    /\ parsed = NoParse
    /\ written = 0
    /\ blockIdx = 0
    /\ srcPos = 0
    /\ nReads = 0
    /\ acc = <<>>
    /\ accOffset = 0
    /\ rs = [NewStream EXCEPT !.state = "none"]
    /\ mode = "none"
    /\ failure = "none"
    /\ emitted = <<>>
    /\ delivered = <<>>
    /\ consumerSaw = "none"

\* A catch block that ends the stream normally instead of erroring it
FailAndClose(reason) ==
    /\ rs' = ControllerClose(rs)
    /\ failure' = reason
    /\ nczPc' = "failed"

\* catch (err) { controller.error(err) } (lines 476-478); a rejection of start()
\* itself errors the stream the same way
Fail(reason) ==
    /\ rs' = ControllerError(rs)
    /\ failure' = reason
    /\ nczPc' = "failed"

\* lines 152-274: the metadata is read; a malformed file rejects the promise
NczParse ==
    /\ nczPc = "init"
    /\ parsed' = ParseNcz(nczFile)
    /\ nczPc' = IF parsed'.err = "none" THEN "start" ELSE "rejected"
    /\ UNCHANGED <<nczFile, written, blockIdx, srcPos, nReads, acc, accOffset, rs, mode,
                   failure, emitted, delivered, consumerSaw>>
    /\ nczFrame

\* lines 278-302: the stream is created, start() enqueues the NCA header
NczStart ==
    /\ nczPc = "start"
    /\ LET hdr == Chunk("hdr", <<Run("hdr", 0, NCZ_HEADER_SIZE)>>, 0)
       IN /\ rs' = ControllerEnqueue(NewStream, <<hdr>>)
          /\ emitted' = <<hdr>>
    /\ written' = 0
    /\ nczPc' = "keys"
    /\ UNCHANGED <<nczFile, parsed, blockIdx, srcPos, nReads, acc, accOffset, mode,
                   failure, delivered, consumerSaw>>
    /\ nczFrame

\* lines 287-302: subtle.importKey for every section with cryptoType >= 3
NczImportKeys ==
    /\ nczPc = "keys"
    /\ IF /\ ~nczFile.env.importOk
          /\ \E i \in 1..Len(parsed.sections) :
                parsed.sections[i].cryptoType >= ENCRYPTION_TYPE_AES_CTR
       THEN Fail("importKey")
       ELSE nczPc' = "enter" /\ UNCHANGED <<rs, failure>>
    /\ UNCHANGED <<nczFile, parsed, written, blockIdx, srcPos, nReads, acc, accOffset, mode,
                   emitted, delivered, consumerSaw>>
    /\ nczFrame

\* line 370: blocks.length > 0 && blockHeader
BlockModeTest == Len(parsed.blocks) > 0 /\ parsed.blockHeader.present

\* lines 370-376 and 416-433: the branch, and the check of the caller's function
NczEnter ==
    /\ nczPc = "enter"
    /\ IF BlockModeTest
       THEN /\ mode' = "block"
            /\ IF nczFile.env.decompressBlob
               THEN nczPc' = "block" /\ UNCHANGED <<rs, failure>>
               ELSE Fail("decompressBlob")
       ELSE /\ mode' = "stream"
            /\ IF nczFile.env.decompressStream
               THEN nczPc' = "stream" /\ UNCHANGED <<rs, failure>>
               ELSE Fail("decompressStream")
    /\ UNCHANGED <<nczFile, parsed, written, blockIdx, srcPos, nReads, acc, accOffset,
                   emitted, delivered, consumerSaw>>
    /\ nczFrame

\* a % b of non-negative a in JavaScript (the sign of b does not matter)
JsRem(a, b) == a % (IF b < 0 THEN 0 - b ELSE b)

\* lines 384-393: the expected decompressed size of block i (counted from 0)
ExpectedSize(i) ==
    LET decompressedBlockSize == Shl1(parsed.blockHeader.blockSizeExponent)
        remainder == JsRem(parsed.blockHeader.decompressedSize, decompressedBlockSize)
    IN IF i = Len(parsed.blocks) - 1 /\ remainder # 0
       THEN remainder
       ELSE decompressedBlockSize

\* lines 395-409: block i decompressed, or passed through
BlockBytes(i) ==
    LET block == parsed.blocks[i + 1]
    IN IF block.size < ExpectedSize(i)
       THEN DecompressBlob(nczFile, block.offset, block.offset + block.size)
       ELSE [err |-> "none", out |-> BlobData(nczFile, block.offset, block.offset + block.size)]

\* lines 380-415: one iteration of the block loop
NczBlock ==
    /\ nczPc = "block"
    /\ blockIdx < Len(parsed.blocks)
    /\ LET d == BlockBytes(blockIdx)
           e == IF d.err = "none" THEN reencrypt(d.out, written) ELSE d
       IN IF e.err # "none"
          THEN Fail(e.err) /\ UNCHANGED <<written, blockIdx, emitted>>
          ELSE /\ rs' = ControllerEnqueue(rs, <<Chunk("body", e.out, written)>>)
               /\ emitted' = Append(emitted, Chunk("body", e.out, written))
               /\ written' = written + BLen(d.out)
               /\ blockIdx' = blockIdx + 1
               /\ nczPc' = IF blockIdx + 1 < Len(parsed.blocks) THEN "block" ELSE "close"
               /\ UNCHANGED failure
    /\ UNCHANGED <<nczFile, parsed, srcPos, nReads, acc, accOffset, mode, delivered,
                   consumerSaw>>
    /\ nczFrame

\* lines 439-461: one value of the decompressed stream copied into the
\* accumulator, which is re-encrypted and enqueued each time it is full
RECURSIVE CopyLoop(_, _, _, _, _, _)
CopyLoop(value, srcOff, a, aOff, w, out) ==
    IF srcOff >= BLen(value)
    THEN [err |-> "none", acc |-> a, accOffset |-> aOff, written |-> w, out |-> out]
    ELSE LET copyLen == Min(BLen(value) - srcOff, FLUSH_SIZE - aOff)
             a2 == BCat(BSlice(a, 0, aOff), BSlice(value, srcOff, srcOff + copyLen))
             aOff2 == aOff + copyLen
         IN IF aOff2 >= FLUSH_SIZE
            THEN LET e == reencrypt(BSlice(a2, 0, aOff2), w)
                 IN IF e.err # "none"
                    THEN [err |-> e.err, acc |-> a2, accOffset |-> aOff2, written |-> w,
                          out |-> out]
                    ELSE CopyLoop(value, srcOff + copyLen, <<>>, 0, w + aOff2,
                                  Append(out, Chunk("body", e.out, w)))
            ELSE CopyLoop(value, srcOff + copyLen, a2, aOff2, w, out)

\* lines 436-461: reader.read() returns a value
NczStreamRead ==
    /\ nczPc = "stream"
    /\ IsZstdStream(nczFile, parsed.compressedDataOffset)
    /\ srcPos < StreamGoodLen(nczFile)
    /\ \E n \in StreamChunkSizes \cup {StreamGoodLen(nczFile) - srcPos} :
          /\ n <= StreamGoodLen(nczFile) - srcPos
          /\ nReads + 1 >= MaxReads => n = StreamGoodLen(nczFile) - srcPos
          /\ LET r == CopyLoop(<<Run("body", srcPos, n)>>, 0, acc, accOffset, written, <<>>)
             IN IF r.err # "none"
                THEN Fail(r.err) /\ UNCHANGED <<written, srcPos, nReads, acc, accOffset, emitted>>
                ELSE /\ rs' = ControllerEnqueue(rs, r.out)
                     /\ emitted' = emitted \o r.out
                     /\ written' = r.written
                     /\ acc' = r.acc
                     /\ accOffset' = r.accOffset
                     /\ srcPos' = srcPos + n
                     /\ nReads' = nReads + 1
                     /\ UNCHANGED <<nczPc, failure>>
    /\ UNCHANGED <<nczFile, parsed, blockIdx, mode, delivered, consumerSaw>>
    /\ nczFrame

\* line 436: reader.read() rejects (the bytes are no zstd stream, or a corrupt one)
NczStreamFail ==
    /\ nczPc = "stream"
    /\ \/ ~IsZstdStream(nczFile, parsed.compressedDataOffset)
       \/ (srcPos >= StreamGoodLen(nczFile) /\ ~nczFile.body.streamOk)
    /\ Fail("zstd")
    /\ UNCHANGED <<nczFile, parsed, written, blockIdx, srcPos, nReads, acc, accOffset, mode,
                   emitted, delivered, consumerSaw>>
    /\ nczFrame

\* A decoder that closes at end of input without flushing the accumulator
NczStreamDoneNoFlush ==
    /\ nczPc = "stream"
    /\ IsZstdStream(nczFile, parsed.compressedDataOffset)
    /\ nczFile.body.streamOk
    /\ srcPos >= nczFile.body.streamLen
    /\ nczPc' = "close"
    /\ UNCHANGED <<nczFile, parsed, written, blockIdx, srcPos, nReads, acc, accOffset, rs,
                   mode, failure, emitted, delivered, consumerSaw>>
    /\ nczFrame

\* lines 437 and 464-472: reader.read() reports done, the tail is flushed
NczStreamDone ==
    /\ nczPc = "stream"
    /\ IsZstdStream(nczFile, parsed.compressedDataOffset)
    /\ nczFile.body.streamOk
    /\ srcPos >= nczFile.body.streamLen
    /\ IF accOffset > 0
       THEN LET e == reencrypt(BSlice(acc, 0, accOffset), written)
            IN IF e.err # "none"
               THEN Fail(e.err) /\ UNCHANGED <<written, emitted>>
               ELSE /\ rs' = ControllerEnqueue(rs, <<Chunk("body", e.out, written)>>)
                    /\ emitted' = Append(emitted, Chunk("body", e.out, written))
                    /\ written' = written + accOffset
                    /\ nczPc' = "close"
                    /\ UNCHANGED failure
       ELSE nczPc' = "close" /\ UNCHANGED <<rs, failure, written, emitted>>
    /\ UNCHANGED <<nczFile, parsed, blockIdx, srcPos, nReads, acc, accOffset, mode,
                   delivered, consumerSaw>>
    /\ nczFrame

\* line 475: controller.close()
NczClose ==
    /\ nczPc = "close"
    /\ rs' = ControllerClose(rs)
    /\ nczPc' = "done"
    /\ UNCHANGED <<nczFile, parsed, written, blockIdx, srcPos, nReads, acc, accOffset, mode,
                   failure, emitted, delivered, consumerSaw>>
    /\ nczFrame

\* The consumer: reader.read() on the returned stream takes the oldest chunk
ConsumerReadChunk ==
    /\ rs.state = "readable"
    /\ rs.queue # <<>>
    /\ delivered' = Append(delivered, Head(rs.queue))
    /\ rs' = [rs EXCEPT !.queue = Tail(rs.queue),
                        !.state = IF Tail(rs.queue) = <<>> /\ rs.closeRequested
                                  THEN "closed" ELSE "readable"]
    /\ consumerSaw' = "value"
    /\ UNCHANGED <<nczFile, nczPc, parsed, written, blockIdx, srcPos, nReads, acc, accOffset,
                   mode, failure, emitted>>
    /\ nczFrame

\* reader.read() on the closed stream resolves with done
ConsumerReadDone ==
    /\ rs.state = "closed"
    /\ consumerSaw' = "done"
    /\ UNCHANGED <<nczFile, nczPc, parsed, written, blockIdx, srcPos, nReads, acc, accOffset,
                   rs, mode, failure, emitted, delivered>>
    /\ nczFrame

\* reader.read() on the errored stream rejects with the stored error
ConsumerReadError ==
    /\ rs.state = "errored"
    /\ consumerSaw' = "error"
    /\ UNCHANGED <<nczFile, nczPc, parsed, written, blockIdx, srcPos, nReads, acc, accOffset,
                   rs, mode, failure, emitted, delivered>>
    /\ nczFrame

NczNext ==
    \/ NczParse
    \/ NczStart
    \/ NczImportKeys
    \/ NczEnter
    \/ NczBlock
    \/ NczStreamRead
    \/ NczStreamFail
    \/ NczStreamDone
    \/ NczClose
    \/ ConsumerReadChunk
    \/ ConsumerReadDone
    \/ ConsumerReadError

\* ========================================================================
\* buildNsp (packages/hacbrewpack/src/index.ts)
\* ========================================================================
\* The directories a caller may pass as htmldoc / legalinfo ("none": not given)
ManualDirs == {"none", "dirA", "dirB"}

ExefsNames == {"main", "main.npdm"}

ControlNames == {"control.nacp", "icon_AmericanEnglish.dat"}

NspInputs ==
    [exefs : SUBSET ExefsNames, control : SUBSET ControlNames, npdmOk : BOOLEAN,
     romfs : BOOLEAN, htmldoc : ManualDirs, legalinfo : ManualDirs]

\* bytesToHex(hash.subarray(0, 16))
bytesToHex16(hash) == [prim |-> "hex16", of |-> hash]

\* hash.subarray(0, 16)
First16(hash) == [prim |-> "first16", of |-> hash]

\* The NcaResult of assembleNca for an NCA of the given content type and content
NcaResultOf(contentType, content) ==
    LET data == [prim |-> "nca", contentType |-> contentType, content |-> content]
    IN [data |-> data, hash |-> sha256(data), ncaId |-> bytesToHex16(sha256(data)),
        size |-> [prim |-> "size", of |-> data]]

createProgramNca(exefsFiles, romfsData) ==
    NcaResultOf("Program", [prim |-> "program", exefs |-> exefsFiles, romfs |-> romfsData])

createControlNca(romfsData) == NcaResultOf("Control", romfsData)

createManualNca(romfsData) == NcaResultOf("Manual", romfsData)

createMetaNca(cnmt) == NcaResultOf("Meta", cnmt)

\* blobToIvfcPadded(encodeRomfs(entry))
RomfsOf(entry) == [prim |-> "romfs", of |-> entry]

\* cnmt build(): one record per content record, in the order given
buildCnmt(records) == [prim |-> "cnmt", records |-> records]

\* buildPfs0(): one entry per file, in the order given
buildPfs0(files) == [prim |-> "pfs0", files |-> files]

ContentRecord(res, type) ==
    [hash |-> res.hash, ncaId |-> First16(res.hash), size |-> res.size, type |-> type]

Pfs0File(res, ext) == [name |-> [id |-> res.ncaId, ext |-> ext], data |-> res.data]

\* The local variable `name` of buildNsp (Zero while undefined)
NcaVar(name) ==
    LET hits == {i \in DOMAIN ncasBuilt : ncasBuilt[i].var = name}
    IN IF hits = {} THEN Zero ELSE ncasBuilt[CHOOSE i \in hits : TRUE].res

NspInit ==
    /\ nspPc = "npdm"
    /\ nspIn \in NspInputs
    /\ ncasBuilt = <<>>
    /\ ncaIds = <<>>
    /\ contentRecords = <<>>
    /\ cnmtData = Zero
    /\ nspFiles = <<>>
    /\ nspResult = Zero
    /\ nspError = "none"

NspThrow(err) ==
    /\ nspError' = err
    /\ nspPc' = "failed"

\* lines 222-240: main.npdm is looked up and processed
NspProcessNpdm ==
    /\ nspPc = "npdm"
    /\ IF "main.npdm" \notin nspIn.exefs
       THEN NspThrow("ExeFS must contain main.npdm")
       ELSE IF ~nspIn.npdmOk
            THEN NspThrow("processNpdm")
            ELSE nspPc' = "nacp" /\ UNCHANGED nspError
    /\ UNCHANGED <<nspIn, ncasBuilt, ncaIds, contentRecords, cnmtData, nspFiles, nspResult>>
    /\ nspFrame

\* lines 243-288: control.nacp is looked up and patched
NspProcessNacp ==
    /\ nspPc = "nacp"
    /\ IF "control.nacp" \notin nspIn.control
       THEN NspThrow("Control must contain control.nacp")
       ELSE nspPc' = "program" /\ UNCHANGED nspError
    /\ UNCHANGED <<nspIn, ncasBuilt, ncaIds, contentRecords, cnmtData, nspFiles, nspResult>>
    /\ nspFrame

\* lines 290-330
NspProgramNca ==
    /\ nspPc = "program"
    /\ ncasBuilt' = Append(ncasBuilt,
                           [var |-> "programNca",
                            res |-> createProgramNca(nspIn.exefs, nspIn.romfs)])
    /\ nspPc' = "control"
    /\ UNCHANGED <<nspIn, ncaIds, contentRecords, cnmtData, nspFiles, nspResult, nspError>>
    /\ nspFrame

\* lines 332-347: the Control NCA, then ncaIds starts with the two ids
NspControlNca ==
    /\ nspPc = "control"
    /\ LET controlNca == createControlNca(RomfsOf(nspIn.control))
       IN /\ ncasBuilt' = Append(ncasBuilt, [var |-> "controlNca", res |-> controlNca])
          /\ ncaIds' = <<NcaVar("programNca").ncaId, controlNca.ncaId>>
    /\ nspPc' = "htmldoc"
    /\ UNCHANGED <<nspIn, contentRecords, cnmtData, nspFiles, nspResult, nspError>>
    /\ nspFrame

\* lines 349-356
NspHtmlDoc ==
    /\ nspPc = "htmldoc"
    /\ IF nspIn.htmldoc # "none"
       THEN LET htmldocNca == createManualNca(RomfsOf(nspIn.htmldoc))
            IN /\ ncasBuilt' = Append(ncasBuilt, [var |-> "htmldocNca", res |-> htmldocNca])
               /\ ncaIds' = Append(ncaIds, htmldocNca.ncaId)
       ELSE UNCHANGED <<ncasBuilt, ncaIds>>
    /\ nspPc' = "legalinfo"
    /\ UNCHANGED <<nspIn, contentRecords, cnmtData, nspFiles, nspResult, nspError>>
    /\ nspFrame

NspLegalInfoUnlisted ==
    /\ nspPc = "legalinfo"
    /\ IF nspIn.legalinfo # "none"
       THEN LET legalinfoNca == createManualNca(RomfsOf(nspIn.legalinfo))
            IN /\ ncasBuilt' = Append(ncasBuilt,
                                      [var |-> "legalinfoNca", res |-> legalinfoNca])
               /\ UNCHANGED ncaIds
       ELSE UNCHANGED <<ncasBuilt, ncaIds>>
    /\ nspPc' = "cnmt"
    /\ UNCHANGED <<nspIn, contentRecords, cnmtData, nspFiles, nspResult, nspError>>
    /\ nspFrame

\* lines 358-365
NspLegalInfo ==
    /\ nspPc = "legalinfo"
    /\ IF nspIn.legalinfo # "none"
       THEN LET legalinfoNca == createManualNca(RomfsOf(nspIn.legalinfo))
            IN /\ ncasBuilt' = Append(ncasBuilt,
                                      [var |-> "legalinfoNca", res |-> legalinfoNca])
               /\ ncaIds' = Append(ncaIds, legalinfoNca.ncaId)
       ELSE UNCHANGED <<ncasBuilt, ncaIds>>
    /\ nspPc' = "cnmt"
    /\ UNCHANGED <<nspIn, contentRecords, cnmtData, nspFiles, nspResult, nspError>>
    /\ nspFrame

\* lines 367-406: the content records and the CNMT
NspCnmt ==
    /\ nspPc = "cnmt"
    /\ contentRecords' =
          <<ContentRecord(NcaVar("programNca"), "Program"),
            ContentRecord(NcaVar("controlNca"), "Control")>>
          \o (IF NcaVar("htmldocNca") # Zero
              THEN <<ContentRecord(NcaVar("htmldocNca"), "HtmlDocument")>> ELSE <<>>)
          \o (IF NcaVar("legalinfoNca") # Zero
              THEN <<ContentRecord(NcaVar("legalinfoNca"), "LegalInformation")>> ELSE <<>>)
    /\ cnmtData' = buildCnmt(contentRecords')
    /\ nspPc' = "meta"
    /\ UNCHANGED <<nspIn, ncasBuilt, ncaIds, nspFiles, nspResult, nspError>>
    /\ nspFrame

\* lines 410-416
NspMetaNca ==
    /\ nspPc = "meta"
    /\ LET metaNca == createMetaNca(cnmtData)
       IN /\ ncasBuilt' = Append(ncasBuilt, [var |-> "metaNca", res |-> metaNca])
          /\ ncaIds' = Append(ncaIds, metaNca.ncaId)
    /\ nspPc' = "pack"
    /\ UNCHANGED <<nspIn, contentRecords, cnmtData, nspFiles, nspResult, nspError>>
    /\ nspFrame

\* lines 418-454: the file list, the PFS0 and the result
NspPack ==
    /\ nspPc = "pack"
    /\ nspFiles' =
          <<Pfs0File(NcaVar("programNca"), ".nca"), Pfs0File(NcaVar("controlNca"), ".nca")>>
          \o (IF NcaVar("htmldocNca") # Zero
              THEN <<Pfs0File(NcaVar("htmldocNca"), ".nca")>> ELSE <<>>)
          \o (IF NcaVar("legalinfoNca") # Zero
              THEN <<Pfs0File(NcaVar("legalinfoNca"), ".nca")>> ELSE <<>>)
          \o <<Pfs0File(NcaVar("metaNca"), ".cnmt.nca")>>
    /\ nspResult' = [prim |-> "result", nsp |-> buildPfs0(nspFiles'), ncaIds |-> ncaIds]
    /\ nspPc' = "returned"
    /\ UNCHANGED <<nspIn, ncasBuilt, ncaIds, contentRecords, cnmtData, nspError>>
    /\ nspFrame

NspNext ==
    \/ NspProcessNpdm
    \/ NspProcessNacp
    \/ NspProgramNca
    \/ NspControlNca
    \/ NspHtmlDoc
    \/ NspLegalInfo
    \/ NspCnmt
    \/ NspMetaNca
    \/ NspPack

\* ========================================================================
\* packages/romfs/src/index.ts : encode, walkFs, decode
\* ========================================================================
DIR_ENTRY_SIZE == 24

FILE_ENTRY_SIZE == 32

ROMFS_HEADER_SIZE == 80

\* 0xffffffff
ROMFS_ENTRY_EMPTY == -1

ROMFS_FILEPARTITION_OFS == 512

\* Names are sequences of character codes (ASCII, so one byte per character):
\* "a", "bc", "defgh"
RomNames == {<<97>>, <<98, 99>>, <<100, 101, 102, 103, 104>>}

\* Names inside a subdirectory: "x", "yz"
RomSubNames == {<<120>>, <<121, 122>>}

RomFileSizes == {0, 5, 16}

\* All functions from a subset of D to R
PartialFns(D, R) == UNION {[d -> R] : d \in SUBSET D}

\* A file is a Blob: `size` bytes that start at position `blob` of the data the
\* caller holds (0 until the tree is labelled)
RomFiles == [kind : {"file"}, size : RomFileSizes, blob : {0}]

\* Directories that hold files only
RomLeafDirs == [kind : {"dir"}, entries : PartialFns(RomSubNames, RomFiles)]

\* Every file of a tree gets bytes of its own
RomLabel(names, name, base, node) ==
    LET at == base * (1 + Cardinality({m \in names : m[1] < name[1]}))
    IN IF node.kind = "file" THEN [node EXCEPT !.blob = at]
       ELSE [node EXCEPT !.entries =
                [n \in DOMAIN node.entries |->
                    [node.entries[n] EXCEPT
                        !.blob = at + 100 * (1 + Cardinality({m \in RomSubNames : m[1] < n[1]}))]]]

\* The trees given to encode: a root of files and leaf directories
RomTrees ==
    {[n \in DOMAIN t |-> RomLabel(RomNames, n, 1000, t[n])] :
        t \in PartialFns(RomNames, RomFiles \cup RomLeafDirs)}

\* a < b for strings compared code unit by code unit (Array.prototype.sort)
RECURSIVE LexLess(_, _)
LexLess(a, b) ==
    IF b = <<>> THEN FALSE
    ELSE IF a = <<>> THEN TRUE
    ELSE IF a[1] # b[1] THEN a[1] < b[1]
    ELSE LexLess(Tail(a), Tail(b))

\* Object.keys(fs).sort()
RECURSIVE SortedKeys(_)
SortedKeys(keys) ==
    IF keys = {} THEN <<>>
    ELSE LET first == CHOOSE k \in keys : \A o \in keys \ {k} : LexLess(k, o)
         IN <<first>> \o SortedKeys(keys \ {first})

\* No rounding at all
romAlignNone(size, byteSize) == size

\* romfs align(size, byteSize)
romAlign(size, byteSize) ==
    IF size % byteSize = 0 THEN size ELSE size + byteSize - (size % byteSize)

\* The bytes of a file's Blob
BlobBytes(file) == BNorm(<<Run("data", file.blob, file.size)>>)

\* lines 220-281: the loop of walkFs over the sorted names from position k on.
\* w holds dirEntries, fileEntries (entries are referred to by their index, the
\* in-place updates of parentDir / prevDir / prevFile become EXCEPT) and the
\* three running offsets; prevDir and prevFile are indexes, 0 when undefined.
RECURSIVE WalkLoop(_, _, _, _, _, _, _)
WalkLoop(fs, names, k, w, parentIdx, prevDir, prevFile) ==
    IF k > Len(names) THEN w
    ELSE
      LET name == names[k]
          value == fs[name]
          nameSize == Len(name)
          parentDir == w.dirEntries[parentIdx]
      IN IF value.kind = "file"
         THEN LET fileEntry == [offset |-> w.fileEntryOffset,
                                parentOffset |-> parentDir.offset,
                                siblingOffset |-> ROMFS_ENTRY_EMPTY,
                                dataOffset |-> w.dataOffset,
                                dataSize |-> value.size,
                                hashSiblingOffset |-> ROMFS_ENTRY_EMPTY,
                                nameSize |-> nameSize,
                                name |-> name,
                                blob |-> value]
                  idx == Len(w.fileEntries) + 1
                  files1 == Append(w.fileEntries, fileEntry)
                  files2 == IF prevFile # 0
                            THEN [files1 EXCEPT ![prevFile].siblingOffset = fileEntry.offset]
                            ELSE files1
                  dirs2 == IF parentDir.fileOffset = ROMFS_ENTRY_EMPTY
                           THEN [w.dirEntries EXCEPT ![parentIdx].fileOffset = fileEntry.offset]
                           ELSE w.dirEntries
              IN WalkLoop(fs, names, k + 1,
                          [w EXCEPT !.dirEntries = dirs2, !.fileEntries = files2,
                                    !.fileEntryOffset = @ + FILE_ENTRY_SIZE + romAlign(nameSize, 4),
                                    !.dataOffset = @ + romAlign(value.size, 16)],
                          parentIdx, prevDir, idx)
         ELSE LET dirEntry == [offset |-> w.dirEntryOffset,
                               parentOffset |-> parentDir.offset,
                               siblingOffset |-> ROMFS_ENTRY_EMPTY,
                               childOffset |-> ROMFS_ENTRY_EMPTY,
                               fileOffset |-> ROMFS_ENTRY_EMPTY,
                               hashSiblingOffset |-> ROMFS_ENTRY_EMPTY,
                               nameSize |-> nameSize,
                               name |-> name]
                  idx == Len(w.dirEntries) + 1
                  dirs1 == Append(w.dirEntries, dirEntry)
                  dirs2 == IF prevDir # 0
                           THEN [dirs1 EXCEPT ![prevDir].siblingOffset = dirEntry.offset]
                           ELSE dirs1
                  dirs3 == IF parentDir.childOffset = ROMFS_ENTRY_EMPTY
                           THEN [dirs2 EXCEPT ![parentIdx].childOffset = dirEntry.offset]
                           ELSE dirs2
                  inner == WalkLoop(value.entries, SortedKeys(DOMAIN value.entries), 1,
                                    [w EXCEPT !.dirEntries = dirs3,
                                              !.dirEntryOffset = @ + DIR_ENTRY_SIZE
                                                                   + romAlign(nameSize, 4)],
                                    idx, 0, 0)
              IN WalkLoop(fs, names, k + 1, inner, parentIdx, idx, prevFile)

\* lines 208-283
walkFs(fs, w, parentIdx) == WalkLoop(fs, SortedKeys(DOMAIN fs), 1, w, parentIdx, 0, 0)

\* lines 189-201: the next count no prime up to 17 divides
RECURSIVE NextRough(_)
NextRough(count) ==
    IF \E q \in {2, 3, 5, 7, 11, 13, 17} : count % q = 0 THEN NextRough(count + 1)
    ELSE count

\* lines 183-202
romfsGetHashTableCount(numEntries) ==
    IF numEntries < 3 THEN 3
    ELSE IF numEntries < 19 THEN (IF numEntries % 2 = 1 THEN numEntries ELSE numEntries + 1)
    ELSE NextRough(numEntries)

\* lines 317-326
RECURSIVE FilePartitionSize(_, _, _)
FilePartitionSize(fileEntries, i, size) ==
    IF i > Len(fileEntries) THEN size
    ELSE FilePartitionSize(fileEntries, i + 1, romAlign(size, 16) + fileEntries[i].blob.size)

\* The file data written back to back, no padding between files
RECURSIVE FilePartitionPartsUnpadded(_, _)
FilePartitionPartsUnpadded(fileEntries, i) ==
    IF i > Len(fileEntries) THEN <<>>
    ELSE BlobBytes(fileEntries[i].blob) \o FilePartitionPartsUnpadded(fileEntries, i + 1)

\* lines 445-462: the file data, every file but the last padded to 0x10
RECURSIVE FilePartitionParts(_, _)
FilePartitionParts(fileEntries, i) ==
    IF i > Len(fileEntries) THEN <<>>
    ELSE LET size == fileEntries[i].blob.size
             padding == romAlign(size, 16) - size
         IN BlobBytes(fileEntries[i].blob)
            \o (IF i # Len(fileEntries) /\ padding # 0 THEN <<Run("zero", 0, padding)>> ELSE <<>>)
            \o FilePartitionParts(fileEntries, i + 1)

\* new ArrayBuffer(n) pushed as padding when n > 0
PadTo(target, bytesUsed) ==
    IF target - bytesUsed > 0 THEN <<Run("zero", 0, target - bytesUsed)>> ELSE <<>>

\* ---- lines 168-181, 372-426: the hash tables ------------------------------
\* A 32-bit unsigned value is held as hi * 65536 + lo
Uint32Of(v) == [hi |-> v \div 65536, lo |-> v % 65536]

\* a ^ b on non-negative integers
RECURSIVE BitXor(_, _)
BitXor(a, b) ==
    IF a = 0 THEN b
    ELSE IF b = 0 THEN a
    ELSE 2 * BitXor(a \div 2, b \div 2) + ((a + b) % 2)

\* (hash >>> 5) | (hash << 27)
RotateRight5(h) ==
    [hi |-> (h.hi \div 32) + (h.lo % 32) * 2048,
     lo |-> (h.lo \div 32) + (h.hi % 32) * 2048]

\* lines 174-177: the loop from i on
RECURSIVE HashLoop(_, _, _, _, _)
HashLoop(hash, path, start, pathLen, i) ==
    IF i >= pathLen THEN hash
    ELSE LET rotated == RotateRight5(hash)
         IN HashLoop([rotated EXCEPT !.lo = BitXor(rotated.lo, path[start + i + 1])],
                     path, start, pathLen, i + 1)

\* lines 168-181; 123456789 is 0x075BCD15
calcPathHash(parent, path, start, pathLen) ==
    HashLoop([hi |-> BitXor(Uint32Of(parent).hi, 1883), lo |-> BitXor(Uint32Of(parent).lo, 52501)],
             path, start, pathLen, 0)

\* hash % count
HashMod(hash, count) == ((hash.hi % count) * (65536 % count) + hash.lo) % count

\* Every entry into bucket 0, whatever its hash
HashModZero(hash, count) == 0

\* hash % hash_table_entry_count of an entry: the bucket it goes to
HashBucket(hash, count) == HashMod(hash, count)

\* encoder.encode(`/${name}`), and an empty array for the root directory
PathOf(entry, isRoot) == IF isRoot THEN <<>> ELSE <<47>> \o entry.name

\* lines 374-391 / 414-427: the entries from the k-th on are given their
\* hashSiblingOffset and put at the head of their bucket; bucket b is the
\* (b+1)-th element of the table
RECURSIVE PopulateHashTable(_, _, _, _)
PopulateHashTable(entries, table, k, rootIdx) ==
    IF k > Len(entries) THEN [entries |-> entries, table |-> table]
    ELSE LET entry == entries[k]
             hash == calcPathHash(entry.parentOffset, PathOf(entry, k = rootIdx), 1,
                                  entry.nameSize)
             bucket == HashBucket(hash, Len(table)) + 1
         IN PopulateHashTable([entries EXCEPT ![k].hashSiblingOffset = table[bucket]],
                              [table EXCEPT ![bucket] = entry.offset], k + 1, rootIdx)

\* lines 359-370: a table of `count` empty buckets
EmptyHashTable(count) == [b \in 1..count |-> ROMFS_ENTRY_EMPTY]

\* lines 285-509.  The returned Blob is `bytes`; what the header, the hash
\* tables, the directory table and the file table hold is kept next to it
\* (`header`, `dirHashTable`, `dirTable`, `fileHashTable`, `fileTable`).
encode(fs) ==
    LET rootDirEntry == [offset |-> 0, parentOffset |-> 0,
                         siblingOffset |-> ROMFS_ENTRY_EMPTY,
                         childOffset |-> ROMFS_ENTRY_EMPTY,
                         fileOffset |-> ROMFS_ENTRY_EMPTY,
                         hashSiblingOffset |-> ROMFS_ENTRY_EMPTY,
                         nameSize |-> 0, name |-> <<>>]
        offsets == walkFs(fs, [dirEntries |-> <<rootDirEntry>>, fileEntries |-> <<>>,
                               dirEntryOffset |-> DIR_ENTRY_SIZE, fileEntryOffset |-> 0,
                               dataOffset |-> 0], 1)
        file_partition_size == FilePartitionSize(offsets.fileEntries, 1, 0)
        dir_hash_table_size == 4 * romfsGetHashTableCount(Len(offsets.dirEntries))
        file_hash_table_size == 4 * romfsGetHashTableCount(Len(offsets.fileEntries))
        dir_hash_table_ofs == romAlign(file_partition_size + ROMFS_FILEPARTITION_OFS, 4)
        dir_table_ofs == dir_hash_table_ofs + dir_hash_table_size
        file_hash_table_ofs == dir_table_ofs + offsets.dirEntryOffset
        file_table_ofs == file_hash_table_ofs + file_hash_table_size
        dirHash == PopulateHashTable(offsets.dirEntries,
                       EmptyHashTable(romfsGetHashTableCount(Len(offsets.dirEntries))), 1, 1)
        fileHash == PopulateHashTable(offsets.fileEntries,
                        EmptyHashTable(romfsGetHashTableCount(Len(offsets.fileEntries))), 1, 0)
        data == FilePartitionParts(offsets.fileEntries, 1)
        used1 == ROMFS_FILEPARTITION_OFS + BLen(data)
        pad1 == PadTo(dir_hash_table_ofs, used1)
        used2 == used1 + BLen(pad1) + dir_hash_table_size
        pad2 == PadTo(dir_table_ofs, used2)
        used3 == used2 + BLen(pad2) + offsets.dirEntryOffset
        pad3 == PadTo(file_hash_table_ofs, used3)
        used4 == used3 + BLen(pad3) + file_hash_table_size
        pad4 == PadTo(file_table_ofs, used4)
    IN [prim |-> "romfs",
        header |-> [headerSize |-> ROMFS_HEADER_SIZE,
                    dirHashBucketOffset |-> dir_hash_table_ofs,
                    dirHashBucketLength |-> dir_hash_table_size,
                    dirEntryOffset |-> dir_table_ofs,
                    dirEntryLength |-> offsets.dirEntryOffset,
                    fileHashBucketOffset |-> file_hash_table_ofs,
                    fileHashBucketLength |-> file_hash_table_size,
                    fileEntryOffset |-> file_table_ofs,
                    fileEntryLength |-> offsets.fileEntryOffset,
                    dataOffset |-> ROMFS_FILEPARTITION_OFS],
        dirHashTable |-> dirHash.table,
        dirTable |-> dirHash.entries,
        fileHashTable |-> fileHash.table,
        fileTable |-> fileHash.entries,
        bytes |-> BNorm(<<Run("header", 0, ROMFS_HEADER_SIZE),
                          Run("zero", 0, ROMFS_FILEPARTITION_OFS - ROMFS_HEADER_SIZE)>>
                        \o data \o pad1
                        \o <<Run("dirHashTable", 0, dir_hash_table_size)>> \o pad2
                        \o <<Run("dirTable", 0, offsets.dirEntryOffset)>> \o pad3
                        \o <<Run("fileHashTable", 0, file_hash_table_size)>> \o pad4
                        \o <<Run("fileTable", 0, offsets.fileEntryOffset)>>)]

\* lines 115-135 / 137-158: the entries met when the table is walked from
\* addr on, each step as long as the entry's fixed part plus its name rounded
\* up to 4; bytes that are no entry of the table parse as garbage
RECURSIVE ParseEntries(_, _, _, _, _)
ParseEntries(table, fixedSize, base, addr, length) ==
    IF addr >= length THEN [err |-> "none", entries |-> <<>>]
    ELSE LET hits == {i \in 1..Len(table) : table[i].offset = base + addr}
         IN IF hits = {} THEN [err |-> "garbage", entries |-> <<>>]
            ELSE LET e == table[CHOOSE i \in hits : TRUE]
                     rest == ParseEntries(table, fixedSize, base,
                                          addr + romAlign(fixedSize + e.nameSize, 4), length)
                 IN [err |-> rest.err,
                     entries |-> <<[e EXCEPT !.offset = addr]>> \o rest.entries]

\* blob.slice(offset, offset + length) parsed as a table of the image
ParseTable(image, src, table, fixedSize, offset, length) ==
    LET buf == BNorm(BSlice(image.bytes, offset, offset + length))
    IN IF length = 0 THEN [err |-> "none", entries |-> <<>>]
       ELSE IF Len(buf) = 1 /\ buf[1].src = src /\ buf[1].len = length
       THEN ParseEntries(table, fixedSize, buf[1].pos, 0, length)
       ELSE [err |-> "garbage", entries |-> <<>>]

\* The last entry of `entries` named `name` below the directory at dirOffset (0: none)
LastNamed(entries, dirOffset, name, skipRoot) ==
    LET hits == {i \in 1..Len(entries) :
                    /\ entries[i].parentOffset = dirOffset /\ entries[i].name = name
                    /\ (skipRoot => entries[i].offset # 0)}
    IN IF hits = {} THEN 0 ELSE CHOOSE i \in hits : \A j \in hits : j <= i

\* lines 55-84: the object a directory ends up as
RECURSIVE DecodedDir(_, _, _, _)
DecodedDir(image, dirs, files, dirOffset) ==
    LET names == {dirs[i].name : i \in {j \in 1..Len(dirs) :
                                          dirs[j].parentOffset = dirOffset /\ dirs[j].offset # 0}}
                 \cup {files[i].name : i \in {j \in 1..Len(files) :
                                                 files[j].parentOffset = dirOffset}}
    IN [name \in names |->
          LET f == LastNamed(files, dirOffset, name, FALSE)
              d == LastNamed(dirs, dirOffset, name, TRUE)
          IN IF f # 0
             THEN LET dataStart == image.header.dataOffset + files[f].dataOffset
                  IN [kind |-> "file",
                      bytes |-> BNorm(BSlice(image.bytes, dataStart,
                                             dataStart + files[f].dataSize))]
             ELSE [kind |-> "dir",
                   entries |-> DecodedDir(image, dirs, files, dirs[d].offset)]]

\* lines 46-91
decode(image) ==
    LET hdr == BNorm(BSlice(image.bytes, 0, ROMFS_HEADER_SIZE))
        header == image.header
        dirEntries == ParseTable(image, "dirTable", image.dirTable, DIR_ENTRY_SIZE,
                                 header.dirEntryOffset, header.dirEntryLength)
        fileEntries == ParseTable(image, "fileTable", image.fileTable, FILE_ENTRY_SIZE,
                                  header.fileEntryOffset, header.fileEntryLength)
        dirs == dirEntries.entries
        files == fileEntries.entries
        known(i) == {dirs[j].offset : j \in 1..i}
    IN IF hdr # <<Run("header", 0, ROMFS_HEADER_SIZE)>> THEN [err |-> "garbage"]
       ELSE IF dirEntries.err # "none" THEN [err |-> dirEntries.err]
       ELSE IF \E i \in 1..Len(dirs) :
                  dirs[i].offset # 0 /\ dirs[i].parentOffset \notin known(i - 1)
            THEN [err |-> "No dir entry"]
       ELSE IF fileEntries.err # "none" THEN [err |-> fileEntries.err]
       ELSE IF \E i \in 1..Len(files) : files[i].parentOffset \notin known(Len(dirs))
            THEN [err |-> "No dir entry"]
       ELSE IF 0 \notin known(Len(dirs)) THEN [err |-> "No root directory in RomFS"]
       ELSE [err |-> "none", root |-> DecodedDir(image, dirs, files, 0)]

RomInit ==
    /\ romPc = "encode"
    /\ romFs \in RomTrees
    /\ romImage = Zero
    /\ romOut = Zero

RomEncode ==
    /\ romPc = "encode"
    /\ romImage' = encode(romFs)
    /\ romPc' = "decode"
    /\ UNCHANGED <<romFs, romOut>>
    /\ romFrame

RomDecode ==
    /\ romPc = "decode"
    /\ romOut' = decode(romImage)
    /\ romPc' = "done"
    /\ UNCHANGED <<romFs, romImage>>
    /\ romFrame

RomNext ==
    \/ RomEncode
    \/ RomDecode

RomIdle ==
    /\ romPc = "idle"
    /\ romFs = <<>>
    /\ romImage = Zero
    /\ romOut = Zero

\* ========================================================================
\* AES-XTS (packages/aes-xts/src/index.ts)
\*
\* A 16-byte block is the XOR of a set of atoms: a plaintext block of the
\* caller, 16 constant bytes, the AES encryption or decryption of a block under
\* a key, or the GF(2^128) double of an atom.  XOR is the symmetric difference,
\* AES decryption undoes AES encryption under the same key and conversely.

BLOCK_SIZE == 16

Atom(prim, key, arg, v) == [prim |-> prim, key |-> key, arg |-> arg, v |-> v]

PlainBlock(id) == {Atom("plain", "", {}, <<id>>)}

ConstBlock(bytes) == {Atom("bytes", "", {}, bytes)}

\* ZERO_IV
ZERO_IV == {}

\* AES-128 of one block under rawKey
AesEncryptBlock(rawKey, block) ==
    IF \E a \in block : block = {a} /\ a.prim = "aes-dec" /\ a.key = rawKey
    THEN (CHOOSE a \in block : TRUE).arg
    ELSE {Atom("aes-enc", rawKey, block, <<>>)}

AesDecryptBlock(rawKey, block) ==
    IF \E a \in block : block = {a} /\ a.prim = "aes-enc" /\ a.key = rawKey
    THEN (CHOOSE a \in block : TRUE).arg
    ELSE {Atom("aes-dec", rawKey, block, <<>>)}

\* lines 415-419
xorBlocks(a, b) == (a \ b) \cup (b \ a)

\* PKCS7 padding of a whole block: 16 bytes of 0x10
Pkcs7Block == ConstBlock([i \in 1..BLOCK_SIZE |-> 16])

\* crypto.subtle.encrypt({name: 'AES-CBC', iv}, key, blocks): the chained
\* blocks followed by the encrypted padding block
RECURSIVE CbcEncrypt(_, _, _)
CbcEncrypt(rawKey, iv, blocks) ==
    IF blocks = <<>> THEN <<AesEncryptBlock(rawKey, xorBlocks(Pkcs7Block, iv))>>
    ELSE LET c == AesEncryptBlock(rawKey, xorBlocks(blocks[1], iv))
         IN <<c>> \o CbcEncrypt(rawKey, c, Tail(blocks))

\* crypto.subtle.decrypt({name: 'AES-CBC', iv}, key, blocks): rejects unless
\* the last block decrypts to the padding
RECURSIVE CbcDecryptAll(_, _, _)
CbcDecryptAll(rawKey, iv, blocks) ==
    IF blocks = <<>> THEN <<>>
    ELSE <<xorBlocks(AesDecryptBlock(rawKey, blocks[1]), iv)>>
         \o CbcDecryptAll(rawKey, blocks[1], Tail(blocks))

CbcDecrypt(rawKey, iv, blocks) ==
    LET all == CbcDecryptAll(rawKey, iv, blocks)
    IN IF all # <<>> /\ all[Len(all)] = Pkcs7Block
       THEN [err |-> "none", blocks |-> SubSeq(all, 1, Len(all) - 1)]
       ELSE [err |-> "OperationError", blocks |-> <<>>]

\* lines 336-347
ecbEncryptBlock(key, block) == CbcEncrypt(key, ZERO_IV, <<block>>)[1]

\* lines 362-385
ecbDecryptBlock(key, block) ==
    LET paddingXorBlock == xorBlocks(Pkcs7Block, block)
        c1 == ecbEncryptBlock(key, paddingXorBlock)
        result == CbcDecrypt(key, ZERO_IV, <<block, c1>>)
    IN IF result.err = "none" THEN [err |-> "none", block |-> result.blocks[1]]
       ELSE [err |-> result.err, block |-> {}]

\* lines 399-410: doubling is linear over XOR
gf128Mul(block) == {Atom("gf128Mul", "", {a}, <<>>) : a \in block}

\* lines 437-445
RECURSIVE TweakBytes(_, _)
TweakBytes(s, i) ==
    IF i < 0 THEN <<>> ELSE TweakBytes(s \div 256, i - 1) \o <<s % 256>>

getNintendoTweak(sector) == ConstBlock(TweakBytes(sector, 15))

\* lines 462-468: T, then T doubled once more for every further block
RECURSIVE TweakChain(_, _)
TweakChain(T, n) ==
    IF n <= 0 THEN <<>> ELSE <<T>> \o TweakChain(gf128Mul(T), n - 1)

\* lines 454-470
computeSectorTweaks(k2, sector, blocksPerSector) ==
    TweakChain(ecbEncryptBlock(k2, getNintendoTweak(sector)), blocksPerSector)

\* The argument checks encrypt and decrypt start with ("none" when they pass);
\* data is held as 16-byte blocks, sectorSize is in bytes
XtsCheck(key, data, sectorSize) ==
    IF key.len # 32 THEN "AES-XTS key must be 32 bytes"
    ELSE IF (Len(data) * BLOCK_SIZE) % sectorSize # 0
    THEN "Data length must be a multiple of sector size"
    ELSE IF sectorSize % BLOCK_SIZE # 0 THEN "Sector size must be a multiple of 16"
    ELSE "none"

\* Tweaks of one call kept for all its sectors instead of each sector's own
StaleSectorTweaks(k2, startSector, numSectors, blocksPerSector) ==
    LET run == computeSectorTweaks(k2, startSector, numSectors * blocksPerSector)
    IN [s \in 0..(numSectors - 1) |->
          [j \in 1..blocksPerSector |-> run[s * blocksPerSector + j]]]

\* lines 523-530: allTweaks
AllTweaks(k2, startSector, numSectors, blocksPerSector) ==
    [s \in 0..(numSectors - 1) |-> computeSectorTweaks(k2, startSector + s, blocksPerSector)]

\* lines 496-563
encrypt(key, data, sectorSize, startSector) ==
    LET check == XtsCheck(key, data, sectorSize)
        blocksPerSector == sectorSize \div BLOCK_SIZE
        numSectors == (Len(data) * BLOCK_SIZE) \div sectorSize
        allTweaks == AllTweaks(key.k2, startSector, numSectors, blocksPerSector)
    IN IF check # "none" THEN [err |-> check, blocks |-> <<>>]
       ELSE [err |-> "none",
             blocks |-> [b \in 1..Len(data) |->
                LET s == (b - 1) \div blocksPerSector
                    j == (b - 1) % blocksPerSector
                    T == allTweaks[s][j + 1]
                IN xorBlocks(ecbEncryptBlock(key.k1, xorBlocks(data[b], T)), T)]]

\* Decrypts each block without the second XOR with the tweak
decryptNoPostXor(key, data, sectorSize, startSector) ==
    LET check == XtsCheck(key, data, sectorSize)
        blocksPerSector == sectorSize \div BLOCK_SIZE
        numSectors == (Len(data) * BLOCK_SIZE) \div sectorSize
        allTweaks == AllTweaks(key.k2, startSector, numSectors, blocksPerSector)
    IN IF check # "none" THEN [err |-> check, blocks |-> <<>>]
       ELSE [err |-> "none",
             blocks |-> [b \in 1..Len(data) |->
                ecbDecryptBlock(key.k1,
                    xorBlocks(data[b], allTweaks[(b - 1) \div blocksPerSector]
                                                [((b - 1) % blocksPerSector) + 1])).block]]

\* lines 575-641
decrypt(key, data, sectorSize, startSector) ==
    LET check == XtsCheck(key, data, sectorSize)
        blocksPerSector == sectorSize \div BLOCK_SIZE
        numSectors == (Len(data) * BLOCK_SIZE) \div sectorSize
        allTweaks == AllTweaks(key.k2, startSector, numSectors, blocksPerSector)
        dec(b) == LET T == allTweaks[(b - 1) \div blocksPerSector]
                                    [((b - 1) % blocksPerSector) + 1]
                  IN ecbDecryptBlock(key.k1, xorBlocks(data[b], T))
    IN IF check # "none" THEN [err |-> check, blocks |-> <<>>]
       ELSE IF \E b \in 1..Len(data) : dec(b).err # "none"
       THEN [err |-> "OperationError", blocks |-> <<>>]
       ELSE [err |-> "none",
             blocks |-> [b \in 1..Len(data) |->
                LET T == allTweaks[(b - 1) \div blocksPerSector]
                                  [((b - 1) % blocksPerSector) + 1]
                IN xorBlocks(dec(b).block, T)]]

\* Keys: 32 bytes with two different halves, 32 bytes with equal halves, and
\* a key of 16 bytes
XtsKeys == {[len |-> 32, k1 |-> "K1", k2 |-> "K2"],
            [len |-> 32, k1 |-> "K1", k2 |-> "K1"],
            [len |-> 16, k1 |-> "K1", k2 |-> "K1"]}

MaxXtsBlocks == 4

XtsSectorSizes == {16, 24, 32}

XtsStartSectors == {0, 5, 255, 65535}

\* Data of up to MaxXtsBlocks blocks, blocks repeating or not
XtsData == {[i \in 1..Len(q) |-> PlainBlock(q[i])] : q \in SeqsUpTo({1, 2}, MaxXtsBlocks)}

XtsInit ==
    /\ xtsPc = "encrypt"
    /\ xtsIn \in [key : XtsKeys, data : XtsData,
                  sectorSize : XtsSectorSizes, startSector : XtsStartSectors]
    /\ xtsCipher = Zero
    /\ xtsPlain = Zero

XtsEncrypt ==
    /\ xtsPc = "encrypt"
    /\ xtsCipher' = encrypt(xtsIn.key, xtsIn.data, xtsIn.sectorSize, xtsIn.startSector)
    /\ xtsPc' = IF xtsCipher'.err = "none" THEN "decrypt" ELSE "done"
    /\ UNCHANGED <<xtsIn, xtsPlain>>
    /\ xtsFrame

XtsDecrypt ==
    /\ xtsPc = "decrypt"
    /\ xtsPlain' = decrypt(xtsIn.key, xtsCipher.blocks, xtsIn.sectorSize, xtsIn.startSector)
    /\ xtsPc' = "done"
    /\ UNCHANGED <<xtsIn, xtsCipher>>
    /\ xtsFrame

XtsNext ==
    \/ XtsEncrypt
    \/ XtsDecrypt

XtsIdle ==
    /\ xtsPc = "idle"
    /\ xtsIn = Zero
    /\ xtsCipher = Zero
    /\ xtsPlain = Zero

\* ========================================================================
\* PFS0 builder and hash table (nca/src/pfs0.ts)

\* 0x30534650, "PFS0" read as a little-endian u32
PFS0_MAGIC == 810763856

\* HEADER_SIZE
PFS0_HEADER_SIZE == 16

\* FILE_ENTRY_SIZE
PFS0_FILE_ENTRY_SIZE == 24

STRING_TABLE_ALIGNMENT == 32

HASH_TABLE_PADDING == 512

\* buffer.set(bytes, off) / DataView.setUintNN(off, ...) on a Uint8Array
BufSet(buf, off, bytes) ==
    [i \in 1..Len(buf) |-> IF i > off /\ i <= off + Len(bytes) THEN bytes[i - off] ELSE buf[i]]

\* lines 43-48: stringTableOffsets and the unaligned stringTableSize after the
\* first k files
RECURSIVE StringTableOffset(_, _)
StringTableOffset(files, k) ==
    IF k = 0 THEN 0 ELSE StringTableOffset(files, k - 1) + Len(files[k].name) + 1

\* The size left as it is
StringTableUnaligned(size) == size

\* lines 51-53: (size + 0x1f) & ~0x1f
StringTableAlign(size) ==
    (size + (STRING_TABLE_ALIGNMENT - 1))
        - ((size + (STRING_TABLE_ALIGNMENT - 1)) % STRING_TABLE_ALIGNMENT)

\* lines 58-61 and 76-85: the data sizes of the first k files
RECURSIVE FileDataOffset(_, _)
FileDataOffset(files, k) ==
    IF k = 0 THEN 0 ELSE FileDataOffset(files, k - 1) + files[k].data.len

\* lines 70-86: file entries 1..k written into buf
RECURSIVE WriteEntries(_, _, _)
WriteEntries(buf, files, k) ==
    IF k = 0 THEN buf
    ELSE LET entryOffset == PFS0_HEADER_SIZE + (k - 1) * PFS0_FILE_ENTRY_SIZE
             b1 == WriteEntries(buf, files, k - 1)
             b2 == BufSet(b1, entryOffset, LE(FileDataOffset(files, k - 1), 8))
             b3 == BufSet(b2, entryOffset + 8, LE(files[k].data.len, 8))
         IN BufSet(b3, entryOffset + 16, LE(StringTableOffset(files, k - 1), 4))

\* lines 89-93: names 1..k written into buf
RECURSIVE WriteNames(_, _, _, _)
WriteNames(buf, files, stringTableStart, k) ==
    IF k = 0 THEN buf
    ELSE BufSet(WriteNames(buf, files, stringTableStart, k - 1),
                stringTableStart + StringTableOffset(files, k - 1), files[k].name)

\* lines 33-105, byte by byte: `head` is the header, the entry table and the
\* string table (bytes 0 .. headerAndTables - 1 of the buffer), `data` the
\* bytes from headerAndTables on
buildPfs0Bytes(files) ==
    LET stringTableSize == StringTableAlign(StringTableOffset(files, Len(files)))
        fileEntryTableSize == PFS0_FILE_ENTRY_SIZE * Len(files)
        headerAndTables == PFS0_HEADER_SIZE + fileEntryTableSize + stringTableSize
        totalSize == headerAndTables + FileDataOffset(files, Len(files))
        h1 == BufSet(Zeros(headerAndTables), 0, LE(PFS0_MAGIC, 4))
        h2 == BufSet(h1, 4, LE(Len(files), 4))
        h3 == BufSet(h2, 8, LE(stringTableSize, 4))
        h4 == WriteEntries(h3, files, Len(files))
        h5 == WriteNames(h4, files, PFS0_HEADER_SIZE + fileEntryTableSize, Len(files))
    IN [prim |-> "pfs0-bytes",
        head |-> h5,
        data |-> BNorm([i \in 1..Len(files) |->
                           Run("data", files[i].data.pos, files[i].data.len)]),
        size |-> totalSize]

\* The buffer as one byte string
Pfs0Data(out) == BNorm(<<Run("pfs0-head", 0, Len(out.head))>> \o out.data)

\* a / b rounded down
FloorDiv(a, b) == a \div b

\* Math.ceil(a / b)
CeilDiv(a, b) == (a + b - 1) \div b

\* lines 124-158; hashTable is the hashes followed by zeros up to paddedSize
createPfs0HashTable(pfs0Data, blockSize) ==
    LET length == BLen(pfs0Data)
        numBlocks == CeilDiv(length, blockSize)
        hashTableSize == numBlocks * 32
        paddedSize == hashTableSize
                        + ((HASH_TABLE_PADDING - (hashTableSize % HASH_TABLE_PADDING))
                              % HASH_TABLE_PADDING)
    IN [hashTable |-> [hashes |-> [i \in 1..numBlocks |->
                          LET offset == (i - 1) * blockSize
                              readSize == Min(length - offset, blockSize)
                          IN sha256(BNorm(BSlice(pfs0Data, offset, offset + readSize)))],
                       size |-> paddedSize],
        hashTableSize |-> hashTableSize,
        pfs0Offset |-> paddedSize]

\* Names of 1, 20 and 31 bytes (with the terminator: 2, 21 and 32)
PfsNames == {<<97>>, [i \in 1..20 |-> 97 + i], [i \in 1..31 |-> 65 + i]}

PfsDataSizes == {0, 5, 4096}

PfsBlockSizes == {64, 4096}

MaxPfsFiles == 3

\* File k of a list has its bytes at position 10000 * k of the caller's data
PfsFileLists ==
    {[k \in 1..Len(q) |-> [name |-> q[k].name,
                           data |-> [pos |-> 10000 * k, len |-> q[k].size]]] :
        q \in SeqsUpTo([name : PfsNames, size : PfsDataSizes], MaxPfsFiles)}

PfsInit ==
    /\ pfsPc = "build"
    /\ pfsIn \in [files : PfsFileLists, blockSize : PfsBlockSizes]
    /\ pfsOut = Zero
    /\ pfsHash = Zero

PfsBuild ==
    /\ pfsPc = "build"
    /\ pfsOut' = buildPfs0Bytes(pfsIn.files)
    /\ pfsPc' = "hash"
    /\ UNCHANGED <<pfsIn, pfsHash>>
    /\ pfsFrame

PfsHashTable ==
    /\ pfsPc = "hash"
    /\ pfsHash' = createPfs0HashTable(Pfs0Data(pfsOut), pfsIn.blockSize)
    /\ pfsPc' = "done"
    /\ UNCHANGED <<pfsIn, pfsOut>>
    /\ pfsFrame

PfsNext ==
    \/ PfsBuild
    \/ PfsHashTable

PfsIdle ==
    /\ pfsPc = "idle"
    /\ pfsIn = Zero
    /\ pfsOut = Zero
    /\ pfsHash = Zero

\* ========================================================================
\* IVFC hash tree (nca/src/ivfc.ts)
\*
\* A byte array is either a piece of the caller's data, [kind |-> "data", pos,
\* len], or hash data: a list of 32-byte hashes followed by zeros up to `size`
\* bytes, [kind |-> "hashes", hashes, size].

IVFC_HASH_BLOCK_SIZE == 16384

IVFC_NUM_LEVELS == 6

\* 0x43465649, "IVFC" read as a little-endian u32
IVFC_MAGIC == 1128683081

IVFC_ID == 131072

HASH_SIZE == 32

IVFC_HEADER_SIZE == 224

IvfcLen(src) == IF src.kind = "data" THEN src.len ELSE src.size

\* Uint8Array.subarray(a, b), a and b multiples of HASH_SIZE for hash data
IvfcSlice(src, a, b) ==
    IF src.kind = "data"
    THEN [kind |-> "data", pos |-> src.pos + a, len |-> b - a]
    ELSE [kind |-> "hashes",
          hashes |-> SubSeq(src.hashes, (a \div HASH_SIZE) + 1,
                            Min(b \div HASH_SIZE, Len(src.hashes))),
          size |-> b - a]

\* lines 40-43: (value + mask) & ~mask for a power of two
ivfcAlign(value, alignment) ==
    (value + (alignment - 1)) - ((value + (alignment - 1)) % alignment)

\* lines 63-104
createLevel(sourceData) ==
    LET blockSize == IVFC_HASH_BLOCK_SIZE
        sourceSize == IvfcLen(sourceData)
        numBlocks == CeilDiv(sourceSize, blockSize)
        hashDataSize == numBlocks * HASH_SIZE
        paddedSize == ivfcAlign(hashDataSize, blockSize)
    IN [hashes |-> [kind |-> "hashes",
                    hashes |-> [i \in 1..numBlocks |->
                        LET offset == (i - 1) * blockSize
                            readSize == Min(sourceSize - offset, blockSize)
                        IN sha256(IvfcSlice(sourceData, offset, offset + readSize))],
                    size |-> paddedSize],
        hashDataSize |-> hashDataSize]

\* lines 167-181: the descriptors of levels 1..k written into the header
RECURSIVE WriteLevelHeaders(_, _, _)
WriteLevelHeaders(view, paddedSizes, k) ==
    IF k = 0 THEN view
    ELSE LET entryOffset == 16 + (k - 1) * 24
             logicalOffset == SumSeq(SubSeq(paddedSizes, 1, k - 1))
             v1 == WriteLevelHeaders(view, paddedSizes, k - 1)
             v2 == BufSet(v1, entryOffset, LE(logicalOffset, 8))
             v3 == BufSet(v2, entryOffset + 8, LE(paddedSizes[k], 8))
         IN BufSet(v3, entryOffset + 16, LE(14, 4))

\* The SHA-256 of the hashes of level 1 without their padding
masterOfUnpadded(levelData, sizes) ==
    sha256(IvfcSlice(levelData[1], 0, sizes[1]))

\* line 152
masterOf(levelData, sizes) == sha256(levelData[1])

\* lines 154-192: the header; bytes 0 .. 0xBF as `bytes`, the 0x20 bytes at
\* 0xC0 as `masterHash`
IvfcHeader(data, levelData, levelHashDataSizes, levelPaddedSizes) ==
    LET h1 == BufSet(Zeros(192), 0, LE(IVFC_MAGIC, 4))
        h2 == BufSet(h1, 4, LE(IVFC_ID, 4))
        h3 == BufSet(h2, 8, LE(HASH_SIZE, 4))
        h4 == BufSet(h3, 12, LE(IVFC_NUM_LEVELS + 1, 4))
        h5 == WriteLevelHeaders(h4, levelPaddedSizes, IVFC_NUM_LEVELS - 1)
        entryOffset == 16 + (IVFC_NUM_LEVELS - 1) * 24
        h6 == BufSet(h5, entryOffset, LE(SumSeq(levelPaddedSizes), 8))
        h7 == BufSet(h6, entryOffset + 8, LE(IvfcLen(data), 8))
        h8 == BufSet(h7, entryOffset + 16, LE(14, 4))
    IN [bytes |-> h8,
        masterHash |-> masterOf(levelData, levelHashDataSizes),
        size |-> IVFC_HEADER_SIZE]

MaxIvfcData == 2

\* Lengths given to build: none, partial blocks, whole blocks, and enough
\* blocks for level 5 to need two blocks itself
IvfcLengths ==
    {0, 100, IVFC_HASH_BLOCK_SIZE + 5, 513 * IVFC_HASH_BLOCK_SIZE}
    \cup {k * IVFC_HASH_BLOCK_SIZE : k \in 1..3}

IvfcInit ==
    /\ ivfcPc = "level"
    /\ ivfcData \in [kind : {"data"}, pos : {100000 * d : d \in 0..MaxIvfcData},
                     len : IvfcLengths]
    /\ ivfcSource = ivfcData
    /\ ivfcLevels = <<>>
    /\ ivfcHashSizes = <<>>
    /\ ivfcPaddedSizes = <<>>
    /\ ivfcOut = Zero

\* lines 140-149: one turn of the loop
IvfcLevel ==
    /\ ivfcPc = "level"
    /\ Len(ivfcLevels) < IVFC_NUM_LEVELS - 1
    /\ LET made == createLevel(ivfcSource)
       IN /\ ivfcLevels' = <<made.hashes>> \o ivfcLevels
          /\ ivfcHashSizes' = <<made.hashDataSize>> \o ivfcHashSizes
          /\ ivfcPaddedSizes' = <<IvfcLen(made.hashes)>> \o ivfcPaddedSizes
          /\ ivfcSource' = made.hashes
    /\ UNCHANGED <<ivfcPc, ivfcData, ivfcOut>>
    /\ ivfcFrame

\* lines 151-204
IvfcFinish ==
    /\ ivfcPc = "level"
    /\ Len(ivfcLevels) = IVFC_NUM_LEVELS - 1
    /\ ivfcOut' = [header |-> IvfcHeader(ivfcData, ivfcLevels, ivfcHashSizes, ivfcPaddedSizes),
                   levels |-> ivfcLevels,
                   totalLevelSize |-> SumSeq([i \in 1..Len(ivfcLevels) |->
                                                 IvfcLen(ivfcLevels[i])])]
    /\ ivfcPc' = "done"
    /\ UNCHANGED <<ivfcData, ivfcSource, ivfcLevels, ivfcHashSizes, ivfcPaddedSizes>>
    /\ ivfcFrame

IvfcNext ==
    \/ IvfcLevel
    \/ IvfcFinish

IvfcIdle ==
    /\ ivfcPc = "idle"
    /\ ivfcData = Zero
    /\ ivfcSource = Zero
    /\ ivfcLevels = <<>>
    /\ ivfcHashSizes = <<>>
    /\ ivfcPaddedSizes = <<>>
    /\ ivfcOut = Zero

\* ========================================================================
\* createProgramNca (nca/src/index.ts): the section list handed to assembleNca

\* What createProgramNca is called with: romfsData given or not; logoFiles
\* undefined, an empty list, or files
ProgramOptions ==
    [romfs : {"none", "data"},
     logo : {"none", "empty", "files"},
     plaintext : BOOLEAN,
     sign : BOOLEAN,
     keyGeneration : KeyGenerations]

\* lines 505-544: the sections pushed, in order; `kind` tells what a section
\* holds
ProgramSections(options) ==
    <<[kind |-> "exefs", len |-> MEDIA_UNIT + 1,
       cryptType |-> IF options.plaintext THEN CRYPT_NONE ELSE CRYPT_CTR]>>
    \o (IF options.romfs # "none"
        THEN <<[kind |-> "romfs", len |-> MEDIA_UNIT,
                cryptType |-> IF options.plaintext THEN CRYPT_NONE ELSE CRYPT_CTR]>>
        ELSE <<>>)
    \o (IF options.logo = "files"
        THEN <<[kind |-> "logo", len |-> 1, cryptType |-> CRYPT_NONE]>>
        ELSE <<>>)

ProgInit ==
    /\ progIn \in ProgramOptions
    /\ asmPc = "sections"
    /\ asmIn = [sections |-> <<>>]
    /\ fsHeaderObj = <<>>
    /\ sectionOffsets = <<>>
    /\ nca = ZeroNca(0)
    /\ asmResult = Zero
    /\ asmLog = <<>>

\* lines 487-557: build the sections, then call assembleNca with them
ProgSections ==
    /\ asmPc = "sections"
    /\ asmIn' = [sections |-> ProgramSections(progIn),
                 keyGeneration |-> progIn.keyGeneration,
                 plaintext |-> progIn.plaintext,
                 sign |-> progIn.sign]
    /\ fsHeaderObj' = [i \in 1..Len(ProgramSections(progIn)) |-> FreshFsHeader(i)]
    /\ asmPc' = "layout"
    /\ UNCHANGED <<sectionOffsets, nca, asmResult, asmLog>>
    /\ asmFrame

ProgNext ==
    \/ ProgSections
    \/ AsmNext

ProgIdle == progIn = Zero

\* ========================================================================
\* NPDM (nca/src/npdm.ts): processNpdm

\* "META", "ACID" and "ACI0" read as little-endian u32
MAGIC_META == 1096041805

MAGIC_ACID == 1145652033

MAGIC_ACI0 == 810107713

\* rsa.ts: the modulus patched into the ACID
RSA_PUBLIC_KEY_MODULUS ==
    <<189, 84, 115, 183, 239, 38, 19, 186, 4, 225, 25, 38, 74, 29, 240, 179,
      128, 134, 148, 24, 251, 186, 17, 228, 127, 0, 169, 60, 91, 39, 225, 51,
      85, 116, 180, 104, 97, 134, 53, 238, 52, 24, 89, 59, 92, 57, 131, 204,
      112, 124, 112, 82, 152, 9, 202, 202, 70, 55, 196, 6, 92, 73, 9, 169,
      143, 35, 32, 187, 246, 120, 237, 35, 4, 107, 96, 236, 26, 246, 105, 245,
      1, 167, 175, 241, 4, 227, 19, 217, 25, 88, 85, 126, 135, 225, 173, 84,
      3, 95, 71, 206, 103, 39, 249, 61, 97, 116, 60, 18, 234, 128, 88, 166,
      47, 43, 37, 41, 180, 250, 175, 178, 7, 126, 29, 185, 227, 100, 86, 201,
      56, 120, 166, 227, 8, 211, 74, 22, 47, 151, 131, 35, 65, 139, 141, 93,
      231, 180, 143, 10, 185, 28, 155, 255, 109, 145, 168, 17, 162, 177, 60, 188,
      183, 5, 61, 197, 220, 96, 232, 221, 92, 125, 203, 225, 116, 215, 171, 187,
      49, 199, 43, 64, 35, 174, 158, 173, 244, 156, 225, 123, 167, 146, 130, 226,
      125, 198, 223, 48, 224, 119, 130, 49, 130, 161, 11, 58, 25, 246, 162, 1,
      77, 211, 195, 23, 176, 67, 184, 93, 162, 171, 227, 228, 105, 189, 87, 33,
      234, 205, 224, 197, 230, 101, 19, 150, 103, 157, 216, 142, 166, 224, 66, 241,
      109, 93, 91, 210, 85, 32, 185, 30, 89, 19, 60, 23, 194, 37, 86, 199>>

\* The size of the NPDM images processed
NpdmSize == 1280

\* DataView.setBigUint64(off, v, true) stores the digits of v least
\* significant first
U64Bytes(v) == [j \in 1..8 |-> v[9 - j]]

\* `a < b` on u64 values given by their digits, most significant first
U64Less(a, b) == \E i \in 1..8 : a[i] < b[i] /\ \A j \in 1..(i - 1) : a[j] = b[j]

\* A DataView read or write of n bytes at off throws a RangeError unless it
\* lies within the view
InView(buf, off, n) == off >= 0 /\ off + n <= Len(buf)

\* line 83: a title id the range check lets pass
TitleIdAtLeastMin(titleId) == ~ U64Less(titleId, <<1, 0, 0, 0, 0, 0, 0, 0>>)

TitleIdInRange(titleId) ==
    ~ (\/ U64Less(titleId, <<1, 0, 0, 0, 0, 0, 0, 0>>)
       \/ U64Less(<<15, 255, 255, 255, 255, 255, 255, 255>>, titleId))

NpdmThrow(what) == [err |-> what, info |-> [titleId |-> <<>>], data |-> <<>>]

\* lines 26-100; `titleIdOverride` is <<>> when undefined
processNpdm(npdmData, options) ==
    LET data == npdmData
    IN IF ~ InView(data, 0, 4) THEN NpdmThrow("RangeError")
       ELSE IF Num(getUint32LE(data, 0)) # MAGIC_META THEN NpdmThrow("Invalid NPDM magic")
       ELSE IF ~ InView(data, 120, 4) THEN NpdmThrow("RangeError")
       ELSE
       LET aci0Offset == Num(getUint32LE(data, 112))
           acidOffset == Num(getUint32LE(data, 120))
       IN IF ~ InView(data, aci0Offset, 4) THEN NpdmThrow("RangeError")
          ELSE IF Num(getUint32LE(data, aci0Offset)) # MAGIC_ACI0
               THEN NpdmThrow("Invalid ACI0 magic")
          ELSE IF ~ InView(data, acidOffset + 512, 4) THEN NpdmThrow("RangeError")
          ELSE IF Num(getUint32LE(data, acidOffset + 512)) # MAGIC_ACID
               THEN NpdmThrow("Invalid ACID magic")
          ELSE IF ~ InView(data, aci0Offset + 16, 8) THEN NpdmThrow("RangeError")
          ELSE
          LET titleId == IF options.titleIdOverride # <<>>
                         THEN options.titleIdOverride
                         ELSE getBigUint64LE(data, aci0Offset + 16)
              overridden == IF options.titleIdOverride # <<>>
                            THEN BufSet(data, aci0Offset + 16, U64Bytes(titleId))
                            ELSE data
          IN IF ~ TitleIdInRange(titleId) THEN NpdmThrow("outside valid range")
             ELSE [err |-> "none",
                   info |-> [titleId |-> titleId],
                   data |-> IF options.patchAcidKey
                            THEN BufSet(overridden, acidOffset + 256, RSA_PUBLIC_KEY_MODULUS)
                            ELSE overridden]

\* test/npdm.test.ts createTestNpdm: a minimal NPDM with the ACI0 at `aci0`,
\* the ACID at `acid` and the title id given; `bad` names a magic left zero
NpdmImage(aci0, acid, titleId, bad) ==
    LET meta == IF bad = "meta" THEN Zeros(NpdmSize) ELSE BufSet(Zeros(NpdmSize), 0, LE(MAGIC_META, 4))
        offs == BufSet(BufSet(meta, 112, LE(aci0, 4)), 120, LE(acid, 4))
        withAcid == IF bad = "acid" THEN offs ELSE BufSet(offs, acid + 512, LE(MAGIC_ACID, 4))
        withAci0 == IF bad = "aci0" THEN withAcid ELSE BufSet(withAcid, aci0, LE(MAGIC_ACI0, 4))
    IN IF aci0 + 24 <= NpdmSize
       THEN BufSet(withAci0, aci0 + 16, U64Bytes(titleId))
       ELSE withAci0

\* Title ids below, at both ends of, within and above the valid range
NpdmTitleIds ==
    {<<0, 0, 0, 0, 0, 0, 16, 0>>,
     <<0, 255, 255, 255, 255, 255, 255, 255>>,
     <<1, 0, 0, 0, 0, 0, 0, 0>>,
     <<1, 0, 0, 0, 0, 0, 16, 0>>,
     <<15, 255, 255, 255, 255, 255, 255, 255>>,
     <<16, 0, 0, 0, 0, 0, 0, 0>>,
     <<255, 255, 255, 255, 255, 255, 255, 255>>}

\* Where the ACI0 and the ACID lie: as in the tests; the ACI0 inside the
\* ACID's modulus; the ACI0 so late that its title id lies beyond the image
NpdmLayouts ==
    {[aci0 |-> 256, acid |-> 512],
     [aci0 |-> 784, acid |-> 512],
     [aci0 |-> 1276, acid |-> 512]}

NpdmInit ==
    /\ npdmPc = "call"
    /\ \E layout \in NpdmLayouts, titleId \in NpdmTitleIds,
          bad \in {"none", "meta", "aci0", "acid"},
          override \in NpdmTitleIds \cup {<<>>}, patchAcidKey \in BOOLEAN :
          npdmIn = [data |-> NpdmImage(layout.aci0, layout.acid, titleId, bad),
                    options |-> [patchAcidKey |-> patchAcidKey,
                                 titleIdOverride |-> override]]
    /\ npdmOut = NpdmThrow("not called")

\* The caller's array after the call, were `data` a view of it
SharedArrayAfter(npdmData, result) ==
    IF result.err = "none" THEN result.data ELSE npdmData

\* line 36: `data` is a copy, so no write of processNpdm reaches the caller's
\* array
CallerArrayAfter(npdmData, result) == npdmData

NpdmProcess ==
    /\ npdmPc = "call"
    /\ npdmOut' = processNpdm(npdmIn.data, npdmIn.options)
    /\ npdmIn' = [npdmIn EXCEPT
                    !.data = CallerArrayAfter(npdmIn.data,
                                              processNpdm(npdmIn.data, npdmIn.options))]
    /\ npdmPc' = "done"
    /\ npdmFrame

NpdmNext == NpdmProcess

NpdmIdle == npdmPc = "idle" /\ npdmIn = Zero /\ npdmOut = Zero

\* ========================================================================
\* Key derivation (nca/src/keys.ts): loadKeySet, deriveKeys, initializeKeySet

\* The generations modelled: one of the keyblob generations (0..5) and one
\* of the later ones (6..31); every loop of deriveKeys treats each index on
\* its own
OldGens == {0}

NewGens == {6}

KeyGens == OldGens \cup NewGens

\* i.toString(16).padStart(2, '0')
Hex2(i) == IF i = 0 THEN "00" ELSE "06"

\* The bytes hexToBytes makes of the value the keyfile gives for `name`: a
\* value of its own, not all zero
Given(name) == [prim |-> "keyfile", name |-> name]

\* crypto.ts aesEcbDecrypt
aesEcbDecrypt(key, data) == [prim |-> "aes-ecb-dec", key |-> key, of |-> data]

\* Uint8Array.subarray / slice; a part of zeros is zeros
subarray(v, from, to) ==
    IF v = Zero THEN Zero ELSE [prim |-> "subarray", of |-> v, from |-> from, to |-> to]

\* lines 65-70
isZero(data) == data = Zero

\* lines 120-124: `keys` is the set of names the parsed keyfile has a value for
get(keys, name) == IF name \in keys THEN Given(name) ELSE Zero

\* lines 126-137
getIndexed(keys, baseName, indices) ==
    [i \in indices |-> get(keys, baseName \o "_" \o Hex2(i))]

\* lines 119-201
loadKeySet(keys) ==
    [secureBootKey |-> get(keys, "secure_boot_key"),
     tsecKey |-> get(keys, "tsec_key"),
     tsecRootKek |-> get(keys, "tsec_root_kek"),
     tsecAuthSignatures |-> getIndexed(keys, "tsec_auth_signature", {i - 6 : i \in NewGens}),
     tsecRootKeys |-> [i \in {j - 6 : j \in NewGens} |-> Zero],
     keyblobKeySources |-> getIndexed(keys, "keyblob_key_source", OldGens),
     keyblobKeys |-> getIndexed(keys, "keyblob_key", KeyGens),
     keyblobMacKeySources |-> get(keys, "keyblob_mac_key_source"),
     keyblobMacKeys |-> getIndexed(keys, "keyblob_mac_key", KeyGens),
     encryptedKeyblobs |-> getIndexed(keys, "encrypted_keyblob", OldGens),
     keyblobs |-> getIndexed(keys, "keyblob", OldGens),
     masterKekSources |-> getIndexed(keys, "master_kek_source", KeyGens),
     masterKeks |-> getIndexed(keys, "master_kek", KeyGens),
     masterKeySource |-> get(keys, "master_key_source"),
     masterKeys |-> getIndexed(keys, "master_key", KeyGens),
     keyAreaKeyApplicationSource |-> get(keys, "key_area_key_application_source"),
     keyAreaKeyOceanSource |-> get(keys, "key_area_key_ocean_source"),
     keyAreaKeySystemSource |-> get(keys, "key_area_key_system_source"),
     aesKekGenerationSource |-> get(keys, "aes_kek_generation_source"),
     aesKeyGenerationSource |-> get(keys, "aes_key_generation_source"),
     titlekekSource |-> get(keys, "titlekek_source"),
     headerKekSource |-> get(keys, "header_kek_source"),
     headerKeySource |-> get(keys, "header_key_source"),
     headerKey |-> get(keys, "header_key"),
     keyAreaKeys |-> [i \in KeyGens |->
                        <<get(keys, "key_area_key_application_" \o Hex2(i)),
                          get(keys, "key_area_key_ocean_" \o Hex2(i)),
                          get(keys, "key_area_key_system_" \o Hex2(i))>>],
     package1Keys |-> getIndexed(keys, "package1_key", KeyGens),
     package2KeySource |-> get(keys, "package2_key_source"),
     package2Keys |-> getIndexed(keys, "package2_key", KeyGens),
     titlekeks |-> getIndexed(keys, "titlekek", KeyGens)]

\* lines 207-220
generateKek(src, masterKey, kekSeed, keySeed) ==
    aesEcbDecrypt(aesEcbDecrypt(aesEcbDecrypt(masterKey, kekSeed), src), keySeed)

\* lines 230-249: keyblob keys and keyblob mac keys
DeriveKeyblobKeys(ks) ==
    LET derives(i) == /\ i \in OldGens
                      /\ ~ (isZero(ks.secureBootKey) \/ isZero(ks.tsecKey))
                      /\ ~ isZero(ks.keyblobKeySources[i])
        keyblobKey(i) == IF derives(i)
                         THEN aesEcbDecrypt(ks.secureBootKey,
                                            aesEcbDecrypt(ks.tsecKey, ks.keyblobKeySources[i]))
                         ELSE ks.keyblobKeys[i]
    IN [ks EXCEPT
          !.keyblobKeys = [i \in KeyGens |-> keyblobKey(i)],
          !.keyblobMacKeys = [i \in KeyGens |->
              IF derives(i) /\ ~ isZero(ks.keyblobMacKeySources)
              THEN aesEcbDecrypt(keyblobKey(i), ks.keyblobMacKeySources)
              ELSE ks.keyblobMacKeys[i]]]

\* lines 252-270: keyblobs
DecryptKeyblobs(ks) ==
    [ks EXCEPT !.keyblobs = [i \in OldGens |->
        IF \/ isZero(ks.keyblobKeys[i]) \/ isZero(ks.keyblobMacKeys[i])
           \/ isZero(ks.encryptedKeyblobs[i])
        THEN ks.keyblobs[i]
        ELSE subarray(aesCtrEncrypt(ks.keyblobKeys[i],
                                    subarray(ks.encryptedKeyblobs[i], 32, 176),
                                    subarray(ks.encryptedKeyblobs[i], 16, 32)),
                      0, 144)]]

\* lines 272-279: package1 keys and master keks out of the keyblobs
ExtractFromKeyblobs(ks) ==
    [ks EXCEPT
       !.package1Keys = [i \in KeyGens |->
           IF i \in OldGens /\ ~ isZero(subarray(ks.keyblobs[i], 128, 144))
           THEN subarray(ks.keyblobs[i], 128, 144) ELSE ks.package1Keys[i]],
       !.masterKeks = [i \in KeyGens |->
           IF i \in OldGens /\ ~ isZero(subarray(ks.keyblobs[i], 0, 16))
           THEN subarray(ks.keyblobs[i], 0, 16) ELSE ks.masterKeks[i]]]

\* lines 282-293: tsec root keys
DeriveTsecRootKeys(ks) ==
    [ks EXCEPT !.tsecRootKeys = [j \in DOMAIN ks.tsecRootKeys |->
        IF ~ isZero(ks.tsecAuthSignatures[j]) /\ ~ isZero(ks.tsecRootKek)
        THEN aesEcbEncrypt(ks.tsecRootKek, ks.tsecAuthSignatures[j])
        ELSE ks.tsecRootKeys[j]]]

\* lines 295-305: master keks of 6.2.0 and later
DeriveNewMasterKeks(ks) ==
    [ks EXCEPT !.masterKeks = [i \in KeyGens |->
        IF i \in NewGens /\ ~ isZero(ks.tsecRootKeys[i - 6]) /\ ~ isZero(ks.masterKekSources[i])
        THEN aesEcbDecrypt(ks.tsecRootKeys[i - 6], ks.masterKekSources[i])
        ELSE ks.masterKeks[i]]]

\* lines 308-317: master keys
DeriveMasterKeys(ks) ==
    [ks EXCEPT !.masterKeys = [i \in KeyGens |->
        IF isZero(ks.masterKeySource) \/ isZero(ks.masterKeks[i])
        THEN ks.masterKeys[i]
        ELSE aesEcbDecrypt(ks.masterKeks[i], ks.masterKeySource)]]

\* lines 323-353: one key-area key
DeriveKak(ks, i, source, old) ==
    IF ~ isZero(ks.masterKeys[i]) /\ ~ isZero(source)
    THEN generateKek(source, ks.masterKeys[i], ks.aesKekGenerationSource,
                     ks.aesKeyGenerationSource)
    ELSE old

\* lines 320-395: key-area keys, titlekeks, package2 keys and the header key
DeriveFromMasterKeys(ks) ==
    [ks EXCEPT
       !.keyAreaKeys = [i \in KeyGens |->
           <<DeriveKak(ks, i, ks.keyAreaKeyApplicationSource, ks.keyAreaKeys[i][1]),
             DeriveKak(ks, i, ks.keyAreaKeyOceanSource, ks.keyAreaKeys[i][2]),
             DeriveKak(ks, i, ks.keyAreaKeySystemSource, ks.keyAreaKeys[i][3])>>],
       !.titlekeks = [i \in KeyGens |->
           IF ~ isZero(ks.masterKeys[i]) /\ ~ isZero(ks.titlekekSource)
           THEN aesEcbDecrypt(ks.masterKeys[i], ks.titlekekSource) ELSE ks.titlekeks[i]],
       !.package2Keys = [i \in KeyGens |->
           IF ~ isZero(ks.masterKeys[i]) /\ ~ isZero(ks.package2KeySource)
           THEN aesEcbDecrypt(ks.masterKeys[i], ks.package2KeySource) ELSE ks.package2Keys[i]],
       !.headerKey =
           IF /\ ~ isZero(ks.masterKeys[0])
              /\ ~ isZero(ks.headerKekSource) /\ ~ isZero(ks.headerKeySource)
           THEN aesEcbDecrypt(generateKek(ks.headerKekSource, ks.masterKeys[0],
                                          ks.aesKekGenerationSource,
                                          ks.aesKeyGenerationSource),
                              ks.headerKeySource)
           ELSE ks.headerKey]

\* The names a keyfile may give: what the chain starts from, and entries the
\* chain derives
KeySourceNames ==
    {"secure_boot_key", "tsec_key", "tsec_root_kek", "tsec_auth_signature_00",
     "keyblob_key_source_00", "keyblob_mac_key_source", "encrypted_keyblob_00",
     "master_kek_source_06", "master_key_source",
     "key_area_key_application_source", "key_area_key_ocean_source",
     "key_area_key_system_source", "aes_kek_generation_source",
     "aes_key_generation_source", "header_kek_source", "header_key_source",
     "titlekek_source", "package2_key_source"}

KeyDirectNames ==
    {"keyblob_key_00", "keyblob_mac_key_00", "keyblob_00", "master_kek_00",
     "master_kek_06", "master_key_00", "master_key_06", "header_key",
     "key_area_key_application_00", "key_area_key_application_06",
     "key_area_key_ocean_00", "key_area_key_system_06"}

\* How many of the source names a keyfile may lack
MaxMissing == 2

\* How many entries a keyfile may give directly
MaxDirect == 2

RECURSIVE SubsetsUpTo(_, _)
SubsetsUpTo(S, k) ==
    IF k = 0 THEN {{}}
    ELSE LET smaller == SubsetsUpTo(S, k - 1)
         IN smaller \cup {p \cup {x} : p \in smaller, x \in S}

KeyFiles ==
    {(KeySourceNames \ missing) \cup direct :
        missing \in SubsetsUpTo(KeySourceNames, MaxMissing),
        direct \in SubsetsUpTo(KeyDirectNames, MaxDirect)}
    \cup SubsetsUpTo(KeyDirectNames, MaxDirect)

KeysInit ==
    /\ keysPc = "load"
    /\ keysFile \in KeyFiles
    /\ keysFull = Zero
    /\ keysOut = Zero

\* lines 409-410: parseKeyFile, loadKeySet
KeysLoad ==
    /\ keysPc = "load"
    /\ keysFull' = loadKeySet(keysFile)
    /\ keysPc' = "keyblobKeys"
    /\ UNCHANGED <<keysFile, keysOut>>
    /\ keysFrame

\* lines 230-249
KeysKeyblobKeys ==
    /\ keysPc = "keyblobKeys"
    /\ keysFull' = DeriveKeyblobKeys(keysFull)
    /\ keysPc' = "keyblobs"
    /\ UNCHANGED <<keysFile, keysOut>>
    /\ keysFrame

\* lines 252-270
KeysKeyblobs ==
    /\ keysPc = "keyblobs"
    /\ keysFull' = DecryptKeyblobs(keysFull)
    /\ keysPc' = "extract"
    /\ UNCHANGED <<keysFile, keysOut>>
    /\ keysFrame

\* lines 272-279
KeysExtract ==
    /\ keysPc = "extract"
    /\ keysFull' = ExtractFromKeyblobs(keysFull)
    /\ keysPc' = "tsecRootKeys"
    /\ UNCHANGED <<keysFile, keysOut>>
    /\ keysFrame

\* lines 282-293
KeysTsecRootKeys ==
    /\ keysPc = "tsecRootKeys"
    /\ keysFull' = DeriveTsecRootKeys(keysFull)
    /\ keysPc' = "masterKeks"
    /\ UNCHANGED <<keysFile, keysOut>>
    /\ keysFrame

\* lines 295-305
KeysMasterKeks ==
    /\ keysPc = "masterKeks"
    /\ keysFull' = DeriveNewMasterKeks(keysFull)
    /\ keysPc' = "masterKeys"
    /\ UNCHANGED <<keysFile, keysOut>>
    /\ keysFrame

\* lines 308-317
KeysMasterKeys ==
    /\ keysPc = "masterKeys"
    /\ keysFull' = DeriveMasterKeys(keysFull)
    /\ keysPc' = "final"
    /\ UNCHANGED <<keysFile, keysOut>>
    /\ keysFrame

\* lines 320-395
KeysFinal ==
    /\ keysPc = "final"
    /\ keysFull' = DeriveFromMasterKeys(keysFull)
    /\ keysPc' = "return"
    /\ UNCHANGED <<keysFile, keysOut>>
    /\ keysFrame

\* lines 415-418
KeysReturn ==
    /\ keysPc = "return"
    /\ keysOut' = [headerKey |-> keysFull.headerKey, keyAreaKeys |-> keysFull.keyAreaKeys]
    /\ keysPc' = "done"
    /\ UNCHANGED <<keysFile, keysFull>>
    /\ keysFrame

KeysNext ==
    \/ KeysLoad
    \/ KeysKeyblobKeys
    \/ KeysKeyblobs
    \/ KeysExtract
    \/ KeysTsecRootKeys
    \/ KeysMasterKeks
    \/ KeysMasterKeys
    \/ KeysFinal
    \/ KeysReturn

KeysIdle == keysPc = "idle" /\ keysFile = {} /\ keysFull = Zero /\ keysOut = Zero

\* ========================================================================
\* Keyfile values (nca/src/keys.ts): parseKeyFile, hexToBytes

\* The characters keyfile values are made of here: hex digits in both
\* cases, a letter that is no hex digit, a sign and a blank
KfChars == {"0", "1", "a", "F", "g", "-", " "}

\* How long a value may be
MaxValueLen == 4

\* String.toLowerCase on one character
toLowerCase(c) == IF c = "F" THEN "f" ELSE c

isHexDigit(c) == c \in {"0", "1", "a", "f", "F"}

hexDigitValue(c) == CASE c = "0" -> 0 [] c = "1" -> 1 [] c = "a" -> 10 [] OTHER -> 15

\* String.trim
RECURSIVE trim(_)
trim(s) ==
    IF s = <<>> THEN s
    ELSE IF Head(s) = " " THEN trim(Tail(s))
    ELSE IF s[Len(s)] = " " THEN trim(SubSeq(s, 1, Len(s) - 1))
    ELSE s

\* parseInt(s, 16) of a string of at most two characters, then the
\* conversion a Uint8Array element applies: blanks in front are skipped, a
\* sign is taken, the longest run of hex digits is read and what follows is
\* ignored; no digit at all gives NaN, stored as 0; a negative value is
\* stored modulo 256
RECURSIVE parseIntHex(_)
parseIntHex(s) ==
    IF s = <<>> THEN 0
    ELSE IF Head(s) = " " THEN parseIntHex(Tail(s))
    ELSE IF Head(s) = "-"
         THEN IF Len(s) > 1 /\ isHexDigit(s[2]) THEN (256 - hexDigitValue(s[2])) % 256 ELSE 0
    ELSE IF ~ isHexDigit(Head(s)) THEN 0
    ELSE IF Len(s) > 1 /\ isHexDigit(s[2])
         THEN 16 * hexDigitValue(s[1]) + hexDigitValue(s[2])
    ELSE hexDigitValue(s[1])

\* lines 72-78: new Uint8Array(hex.length / 2) drops the fraction
hexToBytes(hex) ==
    [i \in 1..(Len(hex) \div 2) |-> parseIntHex(SubSeq(hex, 2 * i - 1, 2 * i))]

\* lines 93-111 for the line `name = text`: the value kept for the name, <<>>
\* when the line sets none
parseKeyLine(text) == [j \in 1..Len(trim(text)) |-> toLowerCase(trim(text)[j])]

\* lines 120-124 with the size of header_key
getHeaderKey(hex) == IF hex # <<>> THEN hexToBytes(hex) ELSE Zeros(32)

RECURSIVE SeqsOfLen(_, _)
SeqsOfLen(S, n) ==
    IF n = 0 THEN {<<>>} ELSE {Append(s, c) : s \in SeqsOfLen(S, n - 1), c \in S}

KfInit ==
    /\ kfPc = "parse"
    /\ \E n \in 1..MaxValueLen : kfText \in SeqsOfLen(KfChars, n)
    /\ kfValue = <<>>
    /\ kfOut = [err |-> "not called", bytes |-> <<>>]

\* line 409
KfParse ==
    /\ kfPc = "parse"
    /\ kfValue' = parseKeyLine(kfText)
    /\ kfPc' = "load"
    /\ UNCHANGED <<kfText, kfOut>>
    /\ kfFrame

\* line 410: nothing in loadKeySet or hexToBytes throws
KfLoad ==
    /\ kfPc = "load"
    /\ kfOut' = [err |-> "none", bytes |-> getHeaderKey(kfValue)]
    /\ kfPc' = "done"
    /\ UNCHANGED <<kfText, kfValue>>
    /\ kfFrame

KfNext ==
    \/ KfParse
    \/ KfLoad

KfIdle == kfPc = "idle" /\ kfText = <<>> /\ kfValue = <<>> /\ kfOut = Zero

\* ========================================================================
\* CNMT (cnmt/src/index.ts): build

HEADER_SIZE == 32

EXTENDED_APP_HEADER_SIZE == 16

CONTENT_RECORD_SIZE == 56

DIGEST_SIZE == 32

\* MetaType.Application
META_TYPE_APPLICATION == 128

\* A JavaScript number n >= 0 is kept as its base-65536 digits, most
\* significant first: <<d3, d2, d1, d0>> stands for
\* d3 * 2^48 + d2 * 2^32 + d1 * 2^16 + d0

\* ToInt32(n): the low 32 bits of n, read as a signed integer
ToInt32(n) == (IF n[3] >= 32768 THEN n[3] - 65536 ELSE n[3]) * 65536 + n[4]

\* Math.floor(n / 0x100000000), which is below 2^31 here
FloorDiv2e32(n) == n[1] * 65536 + n[2]

\* DataView.setUint32(off, v, true) of an int32 v: v modulo 2^32, least
\* significant byte first
Uint32Bytes(v) == [j \in 1..4 |-> (v \div Pow256(j - 1)) % 256]

\* DataView.setUint16(off, v, true): v modulo 2^16
Uint16Bytes(v) == <<v % 256, (v \div 256) % 256>>

\* line 126: size & 0xffffffff
sizeLow(size) == ToInt32(size)

\* the high part kept to 8 bits
sizeHigh8(size) == FloorDiv2e32(size) % 256

\* lines 127-131: Math.floor(size / 0x100000000) & 0xffff
sizeHigh(size) == FloorDiv2e32(size) % 65536

\* titleId + 0x800n stored by setBigUint64: the sum modulo 2^64, on digits
\* most significant first; `carry` is added at digit k
RECURSIVE AddAt(_, _, _)
AddAt(digits, k, carry) ==
    IF k = 0 \/ carry = 0 THEN digits
    ELSE AddAt([digits EXCEPT ![k] = (digits[k] + carry) % 256], k - 1,
               (digits[k] + carry) \div 256)

\* lines 119-138: the records from the k-th on, written at offset
RECURSIVE WriteRecords(_, _, _, _)
WriteRecords(bytes, records, k, offset) ==
    IF k > Len(records) THEN bytes
    ELSE LET record == records[k]
             b1 == BufSet(bytes, offset, SubSeq(record.hash, 1, 32))
             b2 == BufSet(b1, offset + 32, SubSeq(record.ncaId, 1, 16))
             b3 == BufSet(b2, offset + 48, Uint32Bytes(sizeLow(record.size)))
             b4 == BufSet(b3, offset + 52, Uint16Bytes(sizeHigh(record.size)))
             b5 == BufSet(b4, offset + 54, <<record.type % 256>>)
             b6 == BufSet(b5, offset + 55, <<record.idOffset % 256>>)
         IN WriteRecords(b6, records, k + 1, offset + CONTENT_RECORD_SIZE)

\* lines 77-144
buildCnmtBytes(options) ==
    LET totalSize == HEADER_SIZE + EXTENDED_APP_HEADER_SIZE
                        + Len(options.contentRecords) * CONTENT_RECORD_SIZE + DIGEST_SIZE
        h1 == BufSet(Zeros(totalSize), 0, U64Bytes(options.titleId))
        h2 == BufSet(h1, 8, LE(options.titleVersion, 4))
        h3 == BufSet(h2, 12, <<META_TYPE_APPLICATION>>)
        h4 == BufSet(h3, 14, Uint16Bytes(EXTENDED_APP_HEADER_SIZE))
        h5 == BufSet(h4, 16, Uint16Bytes(Len(options.contentRecords)))
        h6 == BufSet(h5, HEADER_SIZE, U64Bytes(AddAt(options.titleId, 7, 8)))
    IN WriteRecords(h6, options.contentRecords, 1, HEADER_SIZE + EXTENDED_APP_HEADER_SIZE)

\* Sizes: every digit at its ends and around the sign bit of a 16-bit half;
\* sizes of 2^48 and more have a first digit above 0
CnmtDigits == {0, 1, 32768, 65535}

CnmtSizes == {<<d3, d2, d1, d0>> : d3 \in {0, 1}, d2 \in CnmtDigits, d1 \in CnmtDigits, d0 \in CnmtDigits}

\* How many content records a CNMT has
MaxCnmtRecords == 2

\* Record k of n: the record at `at` has the size chosen, the others 0x100000
CnmtRecord(k, at, size) ==
    [hash |-> [j \in 1..32 |-> 16 * k + (j % 16)],
     ncaId |-> [j \in 1..16 |-> 16 * k + (j % 16)],
     size |-> IF k = at THEN size ELSE <<0, 0, 16, 0>>,
     type |-> IF k = 1 THEN 1 ELSE 3,
     idOffset |-> 0]

CnmtInit ==
    /\ cnmtPc = "call"
    /\ \E n \in 0..MaxCnmtRecords, at \in 1..MaxCnmtRecords, size \in CnmtSizes,
          titleId \in {<<1, 0, 0, 0, 0, 0, 16, 0>>, <<1, 0, 0, 0, 0, 255, 248, 0>>} :
          /\ at <= n \/ (n = 0 /\ at = 1 /\ size = <<0, 0, 0, 0>>)
          /\ cnmtIn = [titleId |-> titleId, titleVersion |-> 0,
                       contentRecords |-> [k \in 1..n |-> CnmtRecord(k, at, size)]]
    /\ cnmtOut = <<>>

CnmtBuild ==
    /\ cnmtPc = "call"
    /\ cnmtOut' = buildCnmtBytes(cnmtIn)
    /\ cnmtPc' = "done"
    /\ UNCHANGED cnmtIn
    /\ cnmtFrame

CnmtNext == CnmtBuild

CnmtIdle == cnmtPc = "idle" /\ cnmtIn = Zero /\ cnmtOut = <<>>

\* ========================================================================
\* XCI (xci/src/index.ts): parseXci, with parseHfs0 (hfs0/src/index.ts)

XCI_MAGIC == 1212498244

HFS0_MAGIC == 810767432

HFS0_ROOT_OFFSET == 61440

HFS0_ROOT_OFFSET_WITH_KEY_AREA == 65536

\* Map.set(name, entry) on a map kept as the sequence of its entries in
\* insertion order: a name already there keeps its place and gets the new
\* entry
MapSet(files, name, entry) ==
    IF \E k \in 1..Len(files) : files[k].name = name
    THEN [k \in 1..Len(files) |-> IF files[k].name = name THEN entry ELSE files[k]]
    ELSE Append(files, entry)

RECURSIVE Hfs0Files(_, _)
Hfs0Files(entries, k) ==
    IF k = 0 THEN <<>>
    ELSE MapSet(Hfs0Files(entries, k - 1), entries[k].name, entries[k])

\* hfs0 lines 42-106, of a blob given by the four bytes it starts with and
\* the entries of its file table, each with the name the string table gives
\* it and the part of the blob it points at
parseHfs0(blob) ==
    IF Len(blob.magic) < 4 THEN [err |-> "RangeError", files |-> <<>>]
    ELSE IF Num(getUint32LE(blob.magic, 0)) # HFS0_MAGIC
    THEN [err |-> "Not an HFS0 file", files |-> <<>>]
    ELSE [err |-> "none", files |-> Hfs0Files(blob.entries, Len(blob.entries))]

\* lines 60-70: the partitions from the k-th root entry on; the first
\* sub-partition that does not parse ends parseXci with its error
RECURSIVE ParsePartitions(_, _, _)
ParsePartitions(rootFiles, k, found) ==
    IF k > Len(rootFiles) THEN found
    ELSE LET partition == parseHfs0(rootFiles[k].data)
         IN IF partition.err # "none"
            THEN [err |-> partition.err, partitions |-> <<>>, files |-> <<>>, secure |-> FALSE]
            ELSE ParsePartitions(rootFiles, k + 1,
                    [err |-> "none",
                     partitions |-> Append(found.partitions,
                                           [name |-> rootFiles[k].name, files |-> partition.files]),
                     files |-> IF rootFiles[k].name = "secure" THEN partition.files ELSE found.files,
                     secure |-> found.secure \/ rootFiles[k].name = "secure"])

XciThrow(what) == [err |-> what, rootOffset |-> 0, partitions |-> <<>>, files |-> <<>>]

\* lines 35-80, of a blob given by its bytes 0x100..0x104 and what lies at
\* 0xF000 and at 0x10000
parseXci(blob) ==
    IF Len(blob.magic) < 4 THEN XciThrow("RangeError")
    ELSE IF Num(getUint32LE(blob.magic, 0)) # XCI_MAGIC THEN XciThrow("Not an XCI file")
    ELSE
    LET first == parseHfs0(blob.atF000)
        second == parseHfs0(blob.at10000)
        rootOffset == IF first.err = "none" THEN HFS0_ROOT_OFFSET
                      ELSE HFS0_ROOT_OFFSET_WITH_KEY_AREA
        root == IF first.err = "none" THEN first ELSE second
    IN IF root.err # "none" THEN XciThrow(root.err)
       ELSE LET result == ParsePartitions(root.files, 1,
                             [err |-> "none", partitions |-> <<>>, files |-> <<>>,
                              secure |-> FALSE])
            IN IF result.err # "none" THEN XciThrow(result.err)
               ELSE IF ~ result.secure THEN XciThrow("no secure partition")
               ELSE [err |-> "none", rootOffset |-> rootOffset,
                     partitions |-> result.partitions, files |-> result.files]

\* "HFS0" in file order, and a blob that is no HFS0
Hfs0Blob(entries) == [magic |-> <<72, 70, 83, 48>>, entries |-> entries]

NoHfs0 == [magic |-> <<0, 0, 0, 0>>, entries |-> <<>>]

\* Sub-partitions: none, one without files, ones with files
XciPartitionBlobs ==
    {NoHfs0, Hfs0Blob(<<>>),
     Hfs0Blob(<<[name |-> "a.nca", data |-> NoHfs0]>>),
     Hfs0Blob(<<[name |-> "b.nca", data |-> NoHfs0], [name |-> "c.nca", data |-> NoHfs0]>>)}

XciRootEntries == [name : {"secure", "normal"}, data : XciPartitionBlobs]

\* How many entries a root HFS0 has
MaxRootEntries == 2

XciRoots == {NoHfs0} \cup {Hfs0Blob(entries) : entries \in SeqsUpTo(XciRootEntries, MaxRootEntries)}

\* The bytes at 0x100: "HEAD" in file order, the same reversed, zeros, and
\* a blob that ends before 0x104
XciMagics == {<<72, 69, 65, 68>>, <<68, 65, 69, 72>>, <<0, 0, 0, 0>>, <<72, 69, 65>>}

XciInit ==
    /\ xciPc = "call"
    /\ xciBlob \in [magic : XciMagics, atF000 : XciRoots, at10000 : XciRoots]
    /\ xciOut = XciThrow("not called")

XciParse ==
    /\ xciPc = "call"
    /\ xciOut' = parseXci(xciBlob)
    /\ xciPc' = "done"
    /\ UNCHANGED xciBlob
    /\ xciFrame

XciNext == XciParse

XciIdle == xciPc = "idle" /\ xciBlob = Zero /\ xciOut = Zero

\* ========================================================================
\* AES-XTS tweak doubling on bytes (aes-xts/src/index.ts lines 399-410)

\* a ^ b on bytes
RECURSIVE ByteXor(_, _)
ByteXor(a, b) ==
    IF a = 0 /\ b = 0 THEN 0
    ELSE 2 * ByteXor(a \div 2, b \div 2) + ((a + b) % 2)

\* lines 401-405: the loop from byte i on, block[i] being the (i+1)-th
\* element
RECURSIVE ShiftFrom(_, _, _)
ShiftFrom(block, i, carry) ==
    IF i >= BLOCK_SIZE THEN [block |-> block, carry |-> carry]
    ELSE ShiftFrom([block EXCEPT ![i + 1] = (2 * block[i + 1] + carry) % 256],
                   i + 1, block[i + 1] \div 128)

\* The doubling with byte 0 taken as the most significant byte: the shift
\* runs from byte 15 down and the reduction falls on byte 15
RECURSIVE ShiftDownFrom(_, _, _)
ShiftDownFrom(block, i, carry) ==
    IF i < 0 THEN [block |-> block, carry |-> carry]
    ELSE ShiftDownFrom([block EXCEPT ![i + 1] = (2 * block[i + 1] + carry) % 256],
                       i - 1, block[i + 1] \div 128)

gf128MulBigEndian(block) ==
    LET shifted == ShiftDownFrom(block, BLOCK_SIZE - 1, 0)
    IN IF shifted.carry # 0
       THEN [shifted.block EXCEPT ![BLOCK_SIZE] = ByteXor(shifted.block[BLOCK_SIZE], 135)]
       ELSE shifted.block

\* lines 399-410, on the sixteen bytes
gf128MulBytes(block) ==
    LET shifted == ShiftFrom(block, 0, 0)
    IN IF shifted.carry # 0
       THEN [shifted.block EXCEPT ![1] = ByteXor(shifted.block[1], 135)]
       ELSE shifted.block

\* Byte values a tweak byte is drawn from
GfBytes == {1, 128, 135, 255}

\* How many bytes of a tweak are not zero
MaxGfBytes == 2

\* How many times a tweak is doubled
MaxDoublings == 2

ZeroBlock == [i \in 1..BLOCK_SIZE |-> 0]

\* The block with byte i set to b and zeros elsewhere
OneByte(i, b) == [ZeroBlock EXCEPT ![i + 1] = b]

GfBlocks ==
    {[i \in 1..BLOCK_SIZE |-> IF i \in DOMAIN f THEN f[i] ELSE 0] :
        f \in UNION {[S -> GfBytes] : S \in SubsetsUpTo(1..BLOCK_SIZE, MaxGfBytes)}}

GfInit ==
    /\ gfIn \in GfBlocks
    /\ gfBlock = gfIn
    /\ gfCount = 0

\* gf128Mul(T), in place
GfDouble ==
    /\ gfCount # -1
    /\ gfCount < MaxDoublings
    /\ gfBlock' = gf128MulBytes(gfBlock)
    /\ gfCount' = gfCount + 1
    /\ UNCHANGED gfIn
    /\ gfFrame

GfNext == GfDouble

GfIdle == gfIn = Zero /\ gfBlock = Zero /\ gfCount = -1

\* ========================================================================
\* NCZ reencrypt, one loop iteration at a time (ncz/src/index.ts lines 321-367)

\* How many sections the table has
MaxReSections == 2

ReSection ==
    [offset : {0, 16, 48}, size : {0, 16, 32}, cryptoType : {1, ENCRYPTION_TYPE_AES_CTR},
     key : {KeyOf(1)}, counter : {CounterOf(1)}]

\* Section tables with gaps, empty sections and overlaps among them
ReSectionTables == SeqsUpTo(ReSection, MaxReSections)

ReInit ==
    /\ reSections \in ReSectionTables
    /\ reBodyOffset \in {0, 8, 16, 40}
    /\ \E len \in {1, 16, 40} : reData = <<Run("body", reBodyOffset, len)>>
    /\ reDataOff = 0
    /\ reResult = <<>>
    /\ reLast = [index |-> 0, currentOffset |-> 0, chunkLen |-> 0]
    /\ rePc = "loop"

\* lines 329-331: findSection throws
ReNoSection ==
    /\ rePc = "loop"
    /\ reDataOff < BLen(reData)
    /\ findSection(reSections, reBodyOffset + reDataOff) = 0
    /\ rePc' = "NoSectionForOffset"
    /\ UNCHANGED <<reSections, reBodyOffset, reData, reDataOff, reResult, reLast>>
    /\ reFrame

\* lines 329-363: one iteration; subtle.encrypt resolves
ReChunk ==
    /\ rePc = "loop"
    /\ reDataOff < BLen(reData)
    /\ findSection(reSections, reBodyOffset + reDataOff) # 0
    /\ LET currentOffset == reBodyOffset + reDataOff
           index == findSection(reSections, currentOffset)
           section == reSections[index]
           sectionEnd == section.offset + section.size
           remaining == sectionEnd - currentOffset
           chunkLen == Min(remaining, BLen(reData) - reDataOff)
           chunk == BSlice(reData, reDataOff, reDataOff + chunkLen)
       IN /\ reResult' =
                IF section.cryptoType >= ENCRYPTION_TYPE_AES_CTR
                THEN reResult \o AesCtr(section.key, CounterPrefix(section.counter),
                                        currentOffset \div 16, chunk)
                ELSE reResult \o chunk
          /\ reDataOff' = reDataOff + chunkLen
          /\ reLast' = [index |-> index, currentOffset |-> currentOffset, chunkLen |-> chunkLen]
    /\ UNCHANGED <<reSections, reBodyOffset, reData, rePc>>
    /\ reFrame

\* lines 346-354: subtle.encrypt rejects
ReAesFail ==
    /\ rePc = "loop"
    /\ reDataOff < BLen(reData)
    /\ findSection(reSections, reBodyOffset + reDataOff) # 0
    /\ reSections[findSection(reSections, reBodyOffset + reDataOff)].cryptoType
          >= ENCRYPTION_TYPE_AES_CTR
    /\ rePc' = "aes"
    /\ UNCHANGED <<reSections, reBodyOffset, reData, reDataOff, reResult, reLast>>
    /\ reFrame

\* lines 328 and 366: the loop ends, return result
ReReturn ==
    /\ rePc = "loop"
    /\ reDataOff >= BLen(reData)
    /\ rePc' = "returned"
    /\ reResult' = BNorm(reResult)
    /\ UNCHANGED <<reSections, reBodyOffset, reData, reDataOff, reLast>>
    /\ reFrame

ReNext == ReNoSection \/ ReChunk \/ ReAesFail \/ ReReturn

ReIdle ==
    /\ rePc = "idle" /\ reSections = Zero /\ reBodyOffset = Zero /\ reData = Zero
    /\ reDataOff = Zero /\ reResult = Zero /\ reLast = Zero

\* ========================================================================
\* NCZ block mode, the size test (ncz/src/index.ts lines 226-230, 378-398)
\* Sizes up to 2^47 are held as q * 65536 + r with 0 <= r < 65536

RECURSIVE Pow2(_)
Pow2(n) == IF n = 0 THEN 1 ELSE 2 * Pow2(n - 1)

Wide(v) == [q |-> v \div 65536, r |-> v % 65536]

WideLess(a, b) == a.q < b.q \/ (a.q = b.q /\ a.r < b.r)

WideAdd(a, b) == [q |-> a.q + b.q + ((a.r + b.r) \div 65536), r |-> (a.r + b.r) % 65536]

\* 2^e for e <= 46
WidePow2(e) == IF e >= 16 THEN [q |-> Pow2(e - 16), r |-> 0] ELSE [q |-> 0, r |-> Pow2(e)]

\* a % BigInt(d) for a >= 0 and d a power of two or its negative: the result
\* has the sign of a, so the sign of d does not matter
BigIntRem(a, d) ==
    IF d = (-2147483647) - 1 THEN [q |-> a.q % 32768, r |-> a.r]
    ELSE LET m == IF d < 0 THEN 0 - d ELSE d
         IN IF m >= 65536 THEN [q |-> a.q % (m \div 65536), r |-> a.r]
            ELSE [q |-> 0, r |-> a.r % m]

\* lines 226-230
BlockExponentAccepted(blockSizeExponent) ==
    ~ (blockSizeExponent < 14 \/ blockSizeExponent > 32)

\* line 378
decompressedBlockSizeOf(blockSizeExponent) == Shl1(blockSizeExponent)

\* lines 384-393: expectedSize of block i (counted from 0) out of blockCount
expectedSizeOf(blockSizeExponent, decompressedSize, blockCount, i) ==
    LET decompressedBlockSize == decompressedBlockSizeOf(blockSizeExponent)
        remainder == BigIntRem(decompressedSize, decompressedBlockSize)
    IN IF i = blockCount - 1 /\ remainder # Wide(0)
       THEN remainder
       ELSE Wide(decompressedBlockSize)

\* line 396
isCompressedOf(size, expectedSize) == WideLess(size, expectedSize)

\* Exponents a block header may carry
BsExponents == {13, 14, 16, 30, 31, 32, 33}

\* How many blocks a file has
MaxBsBlocks == 2

\* Compressed sizes the block array may hold (u32): small ones, a stored
\* short last block, a stored full block where that fits
BsSizes(e) ==
    {Wide(100), Wide(8192), [q |-> 65535, r |-> 65535]}
        \cup (IF e >= 0 /\ e < 32 THEN {WidePow2(e)} ELSE {})

BsInit ==
    /\ bsPc = "header"
    /\ bsExp \in BsExponents
    /\ \E n \in 1..MaxBsBlocks :
          /\ bsSizes \in [1..n -> BsSizes(bsExp)]
          /\ \E last \in {Wide(8192), WidePow2(bsExp)} :
                bsDsize = IF n = 1 THEN last
                          ELSE WideAdd([q |-> (n - 1) * WidePow2(bsExp).q,
                                        r |-> (n - 1) * WidePow2(bsExp).r], last)
    /\ bsIdx = 0
    /\ bsExpected = <<>>
    /\ bsCompressed = <<>>

\* lines 226-230: the header is read
BsHeader ==
    /\ bsPc = "header"
    /\ bsPc' = IF BlockExponentAccepted(bsExp) THEN "blocks" ELSE "Invalid NCZ block size exponent"
    /\ UNCHANGED <<bsExp, bsSizes, bsDsize, bsIdx, bsExpected, bsCompressed>>
    /\ bsFrame

\* lines 380-398: block bsIdx
BsBlock ==
    /\ bsPc = "blocks"
    /\ bsIdx < Len(bsSizes)
    /\ LET expectedSize == expectedSizeOf(bsExp, bsDsize, Len(bsSizes), bsIdx)
       IN /\ bsExpected' = Append(bsExpected, expectedSize)
          /\ bsCompressed' = Append(bsCompressed, isCompressedOf(bsSizes[bsIdx + 1], expectedSize))
    /\ bsIdx' = bsIdx + 1
    /\ UNCHANGED <<bsPc, bsExp, bsSizes, bsDsize>>
    /\ bsFrame

BsNext == BsHeader \/ BsBlock

BsIdle ==
    /\ bsPc = "idle" /\ bsExp = Zero /\ bsSizes = Zero /\ bsDsize = Zero
    /\ bsIdx = Zero /\ bsExpected = Zero /\ bsCompressed = Zero

\* ========================================================================
\* The cached signing key (nca/src/rsa.ts lines 136-182)
\* A key handle is a positive number, one per importKey call; 0 is null.

\* How many rsaSign calls are made
MaxCalls == 3

RsaCalls == 1..MaxCalls

RsaInit ==
    /\ cachedKey = 0
    /\ rsaImports = 0
    /\ rsaPc = [c \in RsaCalls |-> "start"]
    /\ rsaKey = [c \in RsaCalls |-> 0]

\* lines 168-172, 141-145: rsaSign is called and runs into getSigningKey up
\* to its return of the cached key
RsaCallCached ==
    \E c \in RsaCalls :
        /\ rsaPc[c] = "start"
        /\ cachedKey # 0
        /\ rsaKey' = [rsaKey EXCEPT ![c] = cachedKey]
        /\ rsaPc' = [rsaPc EXCEPT ![c] = "key"]
        /\ UNCHANGED <<cachedKey, rsaImports>>
        /\ rsaFrame

\* lines 168-172, 141-156: rsaSign is called and runs into getSigningKey up
\* to the await of importKey
RsaCallImport ==
    \E c \in RsaCalls :
        /\ rsaPc[c] = "start"
        /\ cachedKey = 0
        /\ rsaImports' = rsaImports + 1
        /\ rsaKey' = [rsaKey EXCEPT ![c] = rsaImports + 1]
        /\ rsaPc' = [rsaPc EXCEPT ![c] = "importing"]
        /\ UNCHANGED cachedKey
        /\ rsaFrame

\* lines 147-157: importKey resolves; cachedKey is set and returned
RsaImported ==
    \E c \in RsaCalls :
        /\ rsaPc[c] = "importing"
        /\ cachedKey' = rsaKey[c]
        /\ rsaPc' = [rsaPc EXCEPT ![c] = "key"]
        /\ UNCHANGED <<rsaImports, rsaKey>>
        /\ rsaFrame

\* lines 172-180: rsaSign goes on with the key and awaits subtle.sign
RsaSignWithKey ==
    \E c \in RsaCalls :
        /\ rsaPc[c] = "key"
        /\ rsaPc' = [rsaPc EXCEPT ![c] = "signing"]
        /\ UNCHANGED <<cachedKey, rsaImports, rsaKey>>
        /\ rsaFrame

\* line 181: the signature is returned
RsaReturn ==
    \E c \in RsaCalls :
        /\ rsaPc[c] = "signing"
        /\ rsaPc' = [rsaPc EXCEPT ![c] = "done"]
        /\ UNCHANGED <<cachedKey, rsaImports, rsaKey>>
        /\ rsaFrame

RsaNext ==
    \/ RsaCallCached
    \/ RsaCallImport
    \/ RsaImported
    \/ RsaSignWithKey
    \/ RsaReturn

RsaIdle == cachedKey = Zero /\ rsaImports = Zero /\ rsaPc = Zero /\ rsaKey = Zero

\* ========================================================================
\* Specifications
\* ========================================================================
AsmIdle ==
    /\ asmPc = "idle"
    /\ asmIn = [sections |-> <<>>]
    /\ fsHeaderObj = <<>>
    /\ sectionOffsets = <<>>
    /\ nca = ZeroNca(0)
    /\ asmResult = Zero
    /\ asmLog = <<>>

NczIdle ==
    /\ nczFile = [body |-> [mode |-> "none"]]
    /\ nczPc = "idle"
    /\ parsed = NoParse
    /\ written = 0
    /\ blockIdx = 0
    /\ srcPos = 0
    /\ nReads = 0
    /\ acc = <<>>
    /\ accOffset = 0
    /\ rs = [NewStream EXCEPT !.state = "none"]
    /\ mode = "none"
    /\ failure = "none"
    /\ emitted = <<>>
    /\ delivered = <<>>
    /\ consumerSaw = "none"

NspIdle ==
    /\ nspPc = "idle"
    /\ nspIn = [exefs |-> {}]
    /\ ncasBuilt = <<>>
    /\ ncaIds = <<>>
    /\ contentRecords = <<>>
    /\ cnmtData = Zero
    /\ nspFiles = <<>>
    /\ nspResult = Zero
    /\ nspError = "none"

InitNca == AsmInit /\ NczIdle /\ NspIdle /\ RomIdle /\ XtsIdle /\ PfsIdle /\ IvfcIdle /\ ProgIdle /\ NpdmIdle /\ KeysIdle /\ KfIdle /\ CnmtIdle /\ XciIdle /\ GfIdle /\ ReIdle /\ BsIdle /\ RsaIdle

SpecNca == InitNca /\ [][AsmNext]_vars

InitNcz == AsmIdle /\ NczInit /\ NspIdle /\ RomIdle /\ XtsIdle /\ PfsIdle /\ IvfcIdle /\ ProgIdle /\ NpdmIdle /\ KeysIdle /\ KfIdle /\ CnmtIdle /\ XciIdle /\ GfIdle /\ ReIdle /\ BsIdle /\ RsaIdle

SpecNcz == InitNcz /\ [][NczNext]_vars

InitNsp == AsmIdle /\ NczIdle /\ NspInit /\ RomIdle /\ XtsIdle /\ PfsIdle /\ IvfcIdle /\ ProgIdle /\ NpdmIdle /\ KeysIdle /\ KfIdle /\ CnmtIdle /\ XciIdle /\ GfIdle /\ ReIdle /\ BsIdle /\ RsaIdle

SpecNsp == InitNsp /\ [][NspNext]_vars

InitRom == AsmIdle /\ NczIdle /\ NspIdle /\ RomInit /\ XtsIdle /\ PfsIdle /\ IvfcIdle /\ ProgIdle /\ NpdmIdle /\ KeysIdle /\ KfIdle /\ CnmtIdle /\ XciIdle /\ GfIdle /\ ReIdle /\ BsIdle /\ RsaIdle

SpecRom == InitRom /\ [][RomNext]_vars

InitXts == AsmIdle /\ NczIdle /\ NspIdle /\ RomIdle /\ XtsInit /\ PfsIdle /\ IvfcIdle /\ ProgIdle /\ NpdmIdle /\ KeysIdle /\ KfIdle /\ CnmtIdle /\ XciIdle /\ GfIdle /\ ReIdle /\ BsIdle /\ RsaIdle

SpecXts == InitXts /\ [][XtsNext]_vars

InitPfs == AsmIdle /\ NczIdle /\ NspIdle /\ RomIdle /\ XtsIdle /\ PfsInit /\ IvfcIdle /\ ProgIdle /\ NpdmIdle /\ KeysIdle /\ KfIdle /\ CnmtIdle /\ XciIdle /\ GfIdle /\ ReIdle /\ BsIdle /\ RsaIdle

SpecPfs == InitPfs /\ [][PfsNext]_vars

InitIvfc == AsmIdle /\ NczIdle /\ NspIdle /\ RomIdle /\ XtsIdle /\ PfsIdle /\ IvfcInit /\ ProgIdle /\ NpdmIdle /\ KeysIdle /\ KfIdle /\ CnmtIdle /\ XciIdle /\ GfIdle /\ ReIdle /\ BsIdle /\ RsaIdle

SpecIvfc == InitIvfc /\ [][IvfcNext]_vars

InitProg == NczIdle /\ NspIdle /\ RomIdle /\ XtsIdle /\ PfsIdle /\ IvfcIdle /\ ProgInit /\ NpdmIdle /\ KeysIdle /\ KfIdle /\ CnmtIdle /\ XciIdle /\ GfIdle /\ ReIdle /\ BsIdle /\ RsaIdle

SpecProg == InitProg /\ [][ProgNext]_vars

InitNpdm == AsmIdle /\ NczIdle /\ NspIdle /\ RomIdle /\ XtsIdle /\ PfsIdle /\ IvfcIdle /\ ProgIdle /\ NpdmInit /\ KeysIdle /\ KfIdle /\ CnmtIdle /\ XciIdle /\ GfIdle /\ ReIdle /\ BsIdle /\ RsaIdle

SpecNpdm == InitNpdm /\ [][NpdmNext]_vars

InitKeys == AsmIdle /\ NczIdle /\ NspIdle /\ RomIdle /\ XtsIdle /\ PfsIdle /\ IvfcIdle /\ ProgIdle /\ NpdmIdle /\ KeysInit /\ KfIdle /\ CnmtIdle /\ XciIdle /\ GfIdle /\ ReIdle /\ BsIdle /\ RsaIdle

SpecKeys == InitKeys /\ [][KeysNext]_vars

InitKeyFile == AsmIdle /\ NczIdle /\ NspIdle /\ RomIdle /\ XtsIdle /\ PfsIdle /\ IvfcIdle /\ ProgIdle /\ NpdmIdle /\ KeysIdle /\ KfInit /\ CnmtIdle /\ XciIdle /\ GfIdle /\ ReIdle /\ BsIdle /\ RsaIdle

SpecKeyFile == InitKeyFile /\ [][KfNext]_vars

InitCnmt == AsmIdle /\ NczIdle /\ NspIdle /\ RomIdle /\ XtsIdle /\ PfsIdle /\ IvfcIdle /\ ProgIdle /\ NpdmIdle /\ KeysIdle /\ KfIdle /\ CnmtInit /\ XciIdle /\ GfIdle /\ ReIdle /\ BsIdle /\ RsaIdle

SpecCnmt == InitCnmt /\ [][CnmtNext]_vars

InitXci == AsmIdle /\ NczIdle /\ NspIdle /\ RomIdle /\ XtsIdle /\ PfsIdle /\ IvfcIdle /\ ProgIdle /\ NpdmIdle /\ KeysIdle /\ KfIdle /\ CnmtIdle /\ XciInit /\ GfIdle /\ ReIdle /\ BsIdle /\ RsaIdle

SpecXci == InitXci /\ [][XciNext]_vars

InitGf == AsmIdle /\ NczIdle /\ NspIdle /\ RomIdle /\ XtsIdle /\ PfsIdle /\ IvfcIdle /\ ProgIdle /\ NpdmIdle /\ KeysIdle /\ KfIdle /\ CnmtIdle /\ XciIdle /\ GfInit /\ ReIdle /\ BsIdle /\ RsaIdle

SpecGf == InitGf /\ [][GfNext]_vars

InitReencrypt == AsmIdle /\ NczIdle /\ NspIdle /\ RomIdle /\ XtsIdle /\ PfsIdle /\ IvfcIdle /\ ProgIdle /\ NpdmIdle /\ KeysIdle /\ KfIdle /\ CnmtIdle /\ XciIdle /\ GfIdle /\ ReInit /\ BsIdle /\ RsaIdle

SpecReencrypt == InitReencrypt /\ [][ReNext]_vars

\* The loop goes on as long as it can: every awaited encryption settles
SpecReencryptFair == InitReencrypt /\ [][ReNext]_vars /\ WF_vars(ReNext)

InitBlockSize == AsmIdle /\ NczIdle /\ NspIdle /\ RomIdle /\ XtsIdle /\ PfsIdle /\ IvfcIdle /\ ProgIdle /\ NpdmIdle /\ KeysIdle /\ KfIdle /\ CnmtIdle /\ XciIdle /\ GfIdle /\ ReIdle /\ BsInit /\ RsaIdle

SpecBlockSize == InitBlockSize /\ [][BsNext]_vars

InitRsa == AsmIdle /\ NczIdle /\ NspIdle /\ RomIdle /\ XtsIdle /\ PfsIdle /\ IvfcIdle /\ ProgIdle /\ NpdmIdle /\ KeysIdle /\ KfIdle /\ CnmtIdle /\ XciIdle /\ GfIdle /\ ReIdle /\ BsIdle /\ RsaInit

SpecRsa == InitRsa /\ [][RsaNext]_vars

\* ========================================================================
\* Properties
\* ========================================================================
\* Position of a step in asmLog (0 when the step was not taken)
StepAt(step) == IndexOf(asmLog, step)

PlainKeyArea == [slot2 |-> "keyAreaKey"]

\* C1 (as the code orders the steps): when assembleNca returns, every section
\* hash is the SHA-256 of the final fsHeader bytes (crypt_type and section_ctr
\* written); the section bodies were AES-CTR encrypted first, the key area was
\* AES-ECB encrypted after that, and only then, when sign is set, the signature
\* was computed over [0x200, 0x400), so the signed bytes hold the ENCRYPTED key
\* area and no XTS ciphertext; the XTS header encryption is the last change to
\* the envelope and the NCA hash is taken over that final envelope.
C1_StepOrder ==
    asmPc = "done" =>
        /\ \A i \in 1..NSec :
              /\ nca.fsHdr[i].cryptType = asmIn.sections[i].cryptType
              /\ nca.fsHdr[i].sectionCtr = U32LEin8(i - 1)
              /\ nca.hashes[i] = sha256(nca.fsHdr[i])
        /\ nca.keyArea = aesEcbEncrypt(<<"keyAreaKeys", asmIn.keyGeneration - 1, 0>>, PlainKeyArea)
        /\ StepAt("hash2") < StepAt("ctr") /\ StepAt("ctr") < StepAt("ecb")
        /\ asmIn.sign =>
              /\ StepAt("ecb") < StepAt("sign") /\ StepAt("sign") < StepAt("xts")
              /\ nca.sig = rsaSign([SignedRegion(nca) EXCEPT !.hdrCipher = Zero])
        /\ ~asmIn.sign => nca.sig = Zero /\ StepAt("sign") = 0
        /\ StepAt("xts") = Len(asmLog)
        /\ nca.hdrCipher = aesXtsEncrypt(HeaderRegion(nca), 512, 0)
        /\ asmResult.data = nca /\ asmResult.hash = sha256(nca)

\* A signed, encrypted NCA of two sections, the second AES-CTR, has been returned
C1_Witness ==
    /\ asmPc = "done" /\ asmIn.sign /\ ~asmIn.plaintext /\ NSec = 2
    /\ asmIn.sections[2].cryptType = CRYPT_CTR
    /\ nca.body[2].enc # Zero

\* C1 as stated: the signature is computed before any encryption, over a region
\* whose key area is still the plaintext key-area key
C1_SignBeforeEncryption ==
    (asmPc = "done" /\ asmIn.sign) =>
        /\ nca.sig.of.keyArea = PlainKeyArea
        /\ StepAt("sign") < StepAt("ctr") /\ StepAt("ctr") < StepAt("ecb")

\* Everything the consumer has read so far, concatenated
DeliveredBytes == BNorm(Flatten([i \in 1..Len(delivered) |-> delivered[i].data]))

HeaderRun == Run("hdr", 0, NCZ_HEADER_SIZE)

BodyBefore(k) ==
    SumSeq([j \in 1..(k - 1) |-> IF emitted[j].kind = "body" THEN BLen(emitted[j].data) ELSE 0])

\* C3: every body chunk is re-encrypted at the running NCA offset
\* 0x4000 + (total length of the body chunks before it)
C3_OffsetStartsAt0x4000 ==
    \A k \in 1..Len(emitted) :
        emitted[k].kind = "body" => emitted[k].at = NCZ_HEADER_SIZE + BodyBefore(k)

\* One AES-128-CTR encryption of the part of section sec that lies in the body,
\* with initial counter sec.counter[0..8] || BE64(sec.offset / 16)
OneShot(sec, lo, hi) ==
    BNorm(CtrFrom(<<Run("body", lo - NCZ_HEADER_SIZE, hi - lo)>>, sec.key,
                  CounterPrefix(sec.counter), 16 * (sec.offset \div 16) + (lo - sec.offset)))

\* C4: after a successful block-mode run over sections that all have
\* cryptoType 3, the delivered bytes of every section's NCA range equal the
\* one-shot AES-CTR encryption of that section
C4_BlockModeMatchesOneShot ==
    (/\ consumerSaw = "done" /\ mode = "block"
     /\ \A i \in 1..Len(parsed.sections) :
           parsed.sections[i].cryptoType = ENCRYPTION_TYPE_AES_CTR) =>
        \A i \in 1..Len(parsed.sections) :
            LET sec == parsed.sections[i]
                lo == Max(sec.offset, NCZ_HEADER_SIZE)
                hi == Min(sec.offset + sec.size, NCZ_HEADER_SIZE + BodyLen(nczFile))
            IN hi > lo => BNorm(BSlice(DeliveredBytes, lo, hi)) = OneShot(sec, lo, hi)

\* C5: at most one body chunk is enqueued and not yet read by the consumer
C5_OneChunkInFlight ==
    Cardinality({k \in 1..Len(rs.queue) : rs.queue[k].kind = "body"}) <= 1

\* C6 (state part): an erroring run has an errored stream with an empty queue
\* that was never closed, and the consumer was not told it is done; a consumer
\* told "done" has read every chunk of a run that raised no error; a consumer
\* told "error" follows a failure.
C6_TerminalStates ==
    /\ failure # "none" =>
          /\ rs.state = "errored" /\ rs.queue = <<>> /\ ~rs.closeRequested
          /\ consumerSaw # "done"
    /\ rs.state = "errored" => failure # "none"
    /\ consumerSaw = "done" =>
          /\ failure = "none" /\ rs.state = "closed" /\ delivered = emitted
          /\ nczPc = "done"
    /\ consumerSaw = "error" => failure # "none"

\* C6 (step part): once the stream is errored or closed nothing is enqueued or
\* delivered any more and the stream stays as it is
C6_TerminalSteps ==
    (rs.state \in {"errored", "closed"}) =>
        /\ rs' = rs /\ delivered' = delivered /\ emitted' = emitted
        /\ failure' = failure

\* C6: Done and Error are terminal and mutually exclusive
C6_DoneAndErrorTerminal == []C6_TerminalStates /\ [][C6_TerminalSteps]_vars

\* A run failed after the consumer had read a body chunk, and the consumer saw the error
C6_Witness ==
    /\ consumerSaw = "error" /\ failure = "zstd"
    /\ Len(delivered) >= 2

\* C7: section i's fields, key and counter all come from the 0x40 bytes
\* [0x4010 + 0x40*i, 0x4010 + 0x40*(i+1)), every counter is 16 bytes long, and
\* the block-header probe is read at 0x4010 + 0x40*sectionCount
C7_SectionRecords0x40 ==
    (nczPc \notin {"idle", "init"} /\ parsed.err = "none") =>
        /\ \A i \in 1..Len(parsed.sections) :
              LET sec == parsed.sections[i]
                  lo == NCZ_HEADER_SIZE + SIZEOF_NCZ_HEADER + 64 * (i - 1)
              IN /\ sec.fieldsAt[1] = lo
                 /\ sec.keyAt = <<lo + 32, lo + 48>>
                 /\ sec.counterAt = <<lo + 48, lo + 64>>
                 /\ Len(sec.counter) = 16
        /\ parsed.blockHeaderOffset
              = NCZ_HEADER_SIZE + SIZEOF_NCZ_HEADER + 64 * Len(parsed.sections)

\* The eight bytes of the file at the block-header probe
ProbeBytes == BlobLit(nczFile, parsed.blockHeaderOffset, parsed.blockHeaderOffset + 8)

\* C8: block mode is entered exactly when the probe's first eight bytes are
\* 'N','C','Z','B','L','O','C','K' in file order, whatever blockCount is;
\* otherwise stream mode is entered with the data starting at the probe
C8_BlockModeIffMagic ==
    mode # "none" =>
        /\ mode = "block" <=> ProbeBytes = BlockMagicBytes
        /\ mode = "stream" => parsed.compressedDataOffset = parsed.blockHeaderOffset

\* The NCAs the NSP holds, as read back from the PFS0 entries
NspEntries == nspResult.nsp.files

\* The content types the inputs ask for, in the fixed order
ExpectedTypes ==
    <<"Program", "Control">>
    \o (IF nspIn.htmldoc # "none" THEN <<"HtmlDocument">> ELSE <<>>)
    \o (IF nspIn.legalinfo # "none" THEN <<"LegalInformation">> ELSE <<>>)

\* The NCA content each content type is built from
ExpectedNca(type) ==
    CASE type = "Program" -> createProgramNca(nspIn.exefs, nspIn.romfs)
      [] type = "Control" -> createControlNca(RomfsOf(nspIn.control))
      [] type = "HtmlDocument" -> createManualNca(RomfsOf(nspIn.htmldoc))
      [] type = "LegalInformation" -> createManualNca(RomfsOf(nspIn.legalinfo))

\* C9: the NSP entries are Program, Control, [HtmlDoc], [LegalInfo], Meta in
\* this order; every entry is named <ncaId>.nca except the last, which is
\* <ncaId>.cnmt.nca; ncaIds lists the entries' ids in the same order; the CNMT
\* inside the Meta NCA has one record per non-Meta NCA in the same order.
C9_NspOrder ==
    nspPc = "returned" =>
        LET n == Len(ExpectedTypes)
            cnmt == NspEntries[n + 1].data.content
        IN /\ Len(NspEntries) = n + 1
           /\ \A i \in 1..n :
                 /\ NspEntries[i].data = ExpectedNca(ExpectedTypes[i]).data
                 /\ NspEntries[i].name.ext = ".nca"
           /\ NspEntries[n + 1].data.contentType = "Meta"
           /\ NspEntries[n + 1].name.ext = ".cnmt.nca"
           /\ \A i \in 1..(n + 1) :
                 NspEntries[i].name.id = bytesToHex16(sha256(NspEntries[i].data))
           /\ Len(nspResult.ncaIds) = n + 1
           /\ \A i \in 1..(n + 1) : nspResult.ncaIds[i] = NspEntries[i].name.id
           /\ cnmt.prim = "cnmt" /\ Len(cnmt.records) = n
           /\ \A i \in 1..n :
                 /\ cnmt.records[i].type = ExpectedTypes[i]
                 /\ cnmt.records[i].hash = sha256(NspEntries[i].data)
                 /\ cnmt.records[i].ncaId = First16(sha256(NspEntries[i].data))

\* An NSP with both manual NCAs has been returned
C9_Witness ==
    /\ nspPc = "returned"
    /\ nspIn.htmldoc # "none" /\ nspIn.legalinfo # "none"
    /\ Len(nspResult.nsp.files) = 5

\* C10: with main.npdm, control.nacp or every icon file missing no NCA is ever
\* assembled and no NSP is returned
C10_MissingInputFails ==
    (\/ "main.npdm" \notin nspIn.exefs
     \/ "control.nacp" \notin nspIn.control
     \/ nspIn.control \subseteq {"control.nacp"}) =>
        /\ ncasBuilt = <<>>
        /\ nspPc # "returned"


\* ------------------------------------------------------------------------
\* RomFS

\* What a tree reads back as: the same names, every file as its bytes
RECURSIVE ExpectedTree(_)
ExpectedTree(fs) ==
    [n \in DOMAIN fs |->
        IF fs[n].kind = "file" THEN [kind |-> "file", bytes |-> BlobBytes(fs[n])]
        ELSE [kind |-> "dir", entries |-> ExpectedTree(fs[n].entries)]]

\* C11: RomFS round-trip.  Once encode and decode have run, decode has not
\* thrown and its tree has the directories, names and file bytes of the tree
\* given to encode; the bytes of every file entry sit at 0x200 + its
\* dataOffset, dataSize of them.
C11_RoundTrip ==
    romPc = "done" =>
        /\ romOut.err = "none"
        /\ romOut.root = ExpectedTree(romFs)
        /\ \A i \in 1..Len(romImage.fileTable) :
              LET e == romImage.fileTable[i]
              IN /\ e.dataSize = e.blob.size
                 /\ BNorm(BSlice(romImage.bytes, 512 + e.dataOffset,
                                 512 + e.dataOffset + e.dataSize)) = BlobBytes(e.blob)

\* A tree with an empty file, an empty directory and a directory holding a
\* file after a file whose size is no multiple of 16 has gone through both
C11_Witness ==
    /\ romPc = "done"
    /\ DOMAIN romFs = RomNames
    /\ romFs[<<97>>].kind = "file" /\ romFs[<<97>>].size = 5
    /\ romFs[<<98, 99>>].kind = "dir" /\ DOMAIN romFs[<<98, 99>>].entries = RomSubNames
    /\ romFs[<<98, 99>>].entries[<<120>>].size = 0
    /\ romFs[<<98, 99>>].entries[<<121, 122>>].size = 5
    /\ romFs[<<100, 101, 102, 103, 104>>].kind = "dir"
    /\ DOMAIN romFs[<<100, 101, 102, 103, 104>>].entries = {}
    /\ romOut.err = "none"

\* C12 (as amended): in the image encode returns every file entry's
\* dataOffset is a multiple of 16, the first is 0 and each next one is the
\* previous one plus the previous file's size rounded up to 16: the offsets
\* never decrease, and they increase exactly after a file that is not empty.
C12_DataOffsets ==
    romPc # "encode" /\ romPc # "idle" =>
        LET t == romImage.fileTable
        IN /\ \A i \in 1..Len(t) : t[i].dataOffset % 16 = 0
           /\ Len(t) > 0 => t[1].dataOffset = 0
           /\ \A i \in 1..(Len(t) - 1) :
                 /\ t[i + 1].dataOffset = t[i].dataOffset + 16 * ((t[i].dataSize + 15) \div 16)
                 /\ t[i + 1].dataOffset >= t[i].dataOffset
                 /\ (t[i + 1].dataOffset > t[i].dataOffset) <=> (t[i].dataSize > 0)

\* An image with an empty file followed by another file, and a file of 5
\* bytes followed by another file
C12_Witness ==
    /\ romPc = "decode"
    /\ \E i \in 1..(Len(romImage.fileTable) - 1) : romImage.fileTable[i].dataSize = 0
    /\ \E i \in 1..(Len(romImage.fileTable) - 1) : romImage.fileTable[i].dataSize = 5

\* C12 as stated: multiples of 16, strictly increasing in emission order
C12_StrictlyIncreasing ==
    romPc # "encode" /\ romPc # "idle" =>
        LET t == romImage.fileTable
        IN /\ \A i \in 1..Len(t) : t[i].dataOffset % 16 = 0
           /\ \A i \in 1..(Len(t) - 1) : t[i + 1].dataOffset > t[i].dataOffset


\* ------------------------------------------------------------------------
\* AES-XTS

XtsArgsValid ==
    /\ xtsIn.key.len = 32
    /\ xtsIn.sectorSize % 16 = 0
    /\ (Len(xtsIn.data) * 16) % xtsIn.sectorSize = 0

\* C13: AES-XTS round-trip.  With a 32-byte key, a sector size that is a
\* multiple of 16 and data that is a whole number of sectors, encrypt
\* succeeds, and decrypt of its result with the same key, sector size and
\* start sector succeeds and returns the data.
C13_XtsRoundTrip ==
    /\ (xtsPc # "encrypt" /\ xtsPc # "idle" /\ XtsArgsValid) => xtsCipher.err = "none"
    /\ (xtsPc = "done" /\ XtsArgsValid) =>
          /\ xtsPlain.err = "none"
          /\ xtsPlain.blocks = xtsIn.data

\* Two sectors of two blocks each, first sector 255, have gone both ways
C13_Witness ==
    /\ xtsPc = "done"
    /\ XtsArgsValid
    /\ Len(xtsIn.data) = 4 /\ xtsIn.sectorSize = 32 /\ xtsIn.startSector = 255
    /\ xtsIn.data[1] = xtsIn.data[3]
    /\ xtsCipher.blocks[1] # xtsCipher.blocks[3]
    /\ xtsPlain.blocks = xtsIn.data

\* n as 16 bytes, most significant first (n < 2^24 here)
BigEndian16(n) ==
    [i \in 1..16 |-> IF i = 16 THEN n % 256
                     ELSE IF i = 15 THEN (n \div 256) % 256
                     ELSE IF i = 14 THEN (n \div 65536) % 256
                     ELSE 0]

\* T doubled j times
RECURSIVE Doubled(_, _)
Doubled(T, j) == IF j = 0 THEN T ELSE Doubled(gf128Mul(T), j - 1)

\* C14: AES-XTS sectors are independent.  In the result of encrypt, sector k
\* is what encrypt returns for that sector's plaintext alone with start
\* sector s + k, and block j of sector k is AES(K1, P xor T) xor T with
\* T = AES(K2, s + k as 16 big-endian bytes) doubled j times.
C14_SectorsIndependent ==
    (xtsPc # "encrypt" /\ xtsPc # "idle" /\ xtsCipher.err = "none") =>
        LET bps == xtsIn.sectorSize \div 16
            n == Len(xtsIn.data) \div bps
        IN \A k \in 0..(n - 1) :
              /\ SubSeq(xtsCipher.blocks, k * bps + 1, (k + 1) * bps)
                    = encrypt(xtsIn.key, SubSeq(xtsIn.data, k * bps + 1, (k + 1) * bps),
                              xtsIn.sectorSize, xtsIn.startSector + k).blocks
              /\ \A j \in 0..(bps - 1) :
                    LET T == Doubled(AesEncryptBlock(xtsIn.key.k2,
                                 ConstBlock(BigEndian16(xtsIn.startSector + k))), j)
                        P == xtsIn.data[k * bps + j + 1]
                    IN xtsCipher.blocks[k * bps + j + 1]
                          = xorBlocks(AesEncryptBlock(xtsIn.key.k1, xorBlocks(P, T)), T)

\* Two sectors of two blocks each were encrypted, the second being sector 256
C14_Witness ==
    /\ xtsPc = "decrypt"
    /\ xtsCipher.err = "none"
    /\ Len(xtsIn.data) = 4 /\ xtsIn.sectorSize = 32 /\ xtsIn.startSector = 255
    /\ xtsIn.data[2] = xtsIn.data[4]
    /\ xtsCipher.blocks[2] # xtsCipher.blocks[4]


\* ------------------------------------------------------------------------
\* PFS0

PfsBuilt == pfsPc = "hash" \/ pfsPc = "done"

\* Sum of f(files[i]) over the first k files
RECURSIVE SumFirst(_, _, _)
SumFirst(f(_), files, k) == IF k = 0 THEN 0 ELSE SumFirst(f, files, k - 1) + f(files[k])

NameRoom(file) == Len(file.name) + 1

DataSize(file) == file.data.len

\* C15: PFS0 framing.  The buffer buildPfs0 returns starts with "PFS0",
\* holds the number of files at 0x04 and at 0x08 a string table size that is
\* a multiple of 0x20 and holds every name with its terminator; entry i (at
\* 0x10 + 0x18 i) has as data offset the sizes of the files before it, as
\* size the file's size and as string table offset the name lengths plus one
\* of the files before it, where the file's name and a zero byte stand; the
\* data region starts right after the string table and is the files'
\* contents in the order given, nothing between them.
C15_Pfs0Framing ==
    PfsBuilt =>
        LET files == pfsIn.files
            n == Len(files)
            head == pfsOut.head
            stringTableSize == Num(getUint32LE(head, 8))
            stringTableStart == 16 + 24 * n
        IN /\ SubSeq(head, 1, 4) = <<80, 70, 83, 48>>
           /\ Num(getUint32LE(head, 4)) = n
           /\ stringTableSize % 32 = 0
           /\ stringTableSize >= SumFirst(NameRoom, files, n)
           /\ Len(head) = stringTableStart + stringTableSize
           /\ \A i \in 1..n :
                 LET at == 16 + 24 * (i - 1)
                     nameAt == stringTableStart + Num(getUint32LE(head, at + 16))
                 IN /\ Num(getBigUint64LE(head, at)) = SumFirst(DataSize, files, i - 1)
                    /\ Num(getBigUint64LE(head, at + 8)) = files[i].data.len
                    /\ Num(getUint32LE(head, at + 16)) = SumFirst(NameRoom, files, i - 1)
                    /\ SubSeq(head, nameAt + 1, nameAt + Len(files[i].name)) = files[i].name
                    /\ head[nameAt + Len(files[i].name) + 1] = 0
                    /\ BNorm(BSlice(pfsOut.data, Num(getBigUint64LE(head, at)),
                                    Num(getBigUint64LE(head, at)) + files[i].data.len))
                          = BNorm(<<Run("data", files[i].data.pos, files[i].data.len)>>)
           /\ BLen(pfsOut.data) = SumFirst(DataSize, files, n)
           /\ pfsOut.size = Len(head) + BLen(pfsOut.data)

\* Three files were built whose names need more than 0x20 bytes, an empty
\* file between two files that are not
C15_Witness ==
    /\ PfsBuilt
    /\ Len(pfsIn.files) = 3
    /\ Len(pfsIn.files[1].name) = 20 /\ Len(pfsIn.files[2].name) = 31
    /\ pfsIn.files[1].data.len = 5
    /\ pfsIn.files[2].data.len = 0
    /\ pfsIn.files[3].data.len = 4096
    /\ Num(getUint32LE(pfsOut.head, 8)) = 64

\* C16 (as amended): createPfs0HashTable returns ceil(len / blockSize)
\* hashes, hashTableSize = 0x20 * numBlocks and pfs0Offset = hashTableSize
\* rounded up to a multiple of 0x200; hash i is the SHA-256 of the bytes of
\* block i that exist: a final block shorter than blockSize is hashed at its
\* own length, without padding.
C16_HashTable ==
    pfsPc = "done" =>
        LET data == Pfs0Data(pfsOut)
            length == pfsOut.size
            blockSize == pfsIn.blockSize
            numBlocks == Len(pfsHash.hashTable.hashes)
        IN /\ numBlocks * blockSize >= length
           /\ (numBlocks - 1) * blockSize < length
           /\ pfsHash.hashTableSize = 32 * numBlocks
           /\ pfsHash.pfs0Offset % 512 = 0
           /\ pfsHash.pfs0Offset >= pfsHash.hashTableSize
           /\ pfsHash.pfs0Offset - pfsHash.hashTableSize < 512
           /\ pfsHash.hashTable.size = pfsHash.pfs0Offset
           /\ \A i \in 1..numBlocks :
                 pfsHash.hashTable.hashes[i]
                    = sha256(BNorm(BSlice(data, (i - 1) * blockSize,
                                          Min(i * blockSize, length))))

\* A buffer whose length is no multiple of the block size was hashed, into
\* more hashes than fit 0x200 bytes
C16_Witness ==
    /\ pfsPc = "done"
    /\ pfsOut.size % pfsIn.blockSize # 0
    /\ pfsHash.hashTableSize > 512
    /\ pfsHash.hashTableSize % 512 # 0

\* C16 as stated: every hash is over blockSize bytes, the final block padded
\* with zeros
C16_LastBlockPadded ==
    pfsPc = "done" =>
        LET data == Pfs0Data(pfsOut)
            length == pfsOut.size
            blockSize == pfsIn.blockSize
            numBlocks == Len(pfsHash.hashTable.hashes)
        IN /\ numBlocks * blockSize >= length
           /\ (numBlocks - 1) * blockSize < length
           /\ pfsHash.hashTableSize = 32 * numBlocks
           /\ pfsHash.pfs0Offset % 512 = 0
           /\ pfsHash.pfs0Offset >= pfsHash.hashTableSize
           /\ pfsHash.pfs0Offset - pfsHash.hashTableSize < 512
           /\ \A i \in 1..numBlocks :
                 LET end == Min(i * blockSize, length)
                 IN pfsHash.hashTable.hashes[i]
                       = sha256(BNorm(BSlice(data, (i - 1) * blockSize, end)
                                      \o <<Run("zero", 0, i * blockSize - end)>>))


\* ------------------------------------------------------------------------
\* IVFC

\* Level k of the tree build returned: 6 is the data, 1..5 the hash levels
IvfcLevelOf(k) == IF k = 6 THEN ivfcData ELSE ivfcOut.levels[k]

\* C17: IVFC build.  For data of a whole number of 0x4000-byte blocks, level
\* k (k = 5 .. 1) is the SHA-256 of every 0x4000-byte block of level k + 1 in
\* order, followed by zeros up to a multiple of 0x4000, level 6 being the
\* data; build returns levels 1 to 5 in that order; the master hash at 0xC0
\* is the SHA-256 of the whole padded level 1; descriptor i holds the sum of
\* the padded sizes of the levels before it and its own padded size, the
\* descriptor of level 6 the sum of all five and the length of the data.
C17_IvfcLevels ==
    (ivfcPc = "done" /\ ivfcData.len % 16384 = 0) =>
        /\ Len(ivfcOut.levels) = 5
        /\ \A k \in 1..5 :
              LET src == IvfcLevelOf(k + 1)
                  n == IvfcLen(src) \div 16384
                  lvl == ivfcOut.levels[k]
              IN /\ lvl.kind = "hashes"
                 /\ Len(lvl.hashes) = n
                 /\ \A i \in 1..n :
                       lvl.hashes[i] = sha256(IvfcSlice(src, (i - 1) * 16384, i * 16384))
                 /\ lvl.size % 16384 = 0
                 /\ lvl.size >= 32 * n
                 /\ lvl.size - 32 * n < 16384
        /\ ivfcOut.header.masterHash = sha256(ivfcOut.levels[1])
        /\ Len(ivfcOut.header.bytes) = 192
        /\ \A k \in 1..6 :
              LET at == 16 + 24 * (k - 1)
              IN /\ Num(getBigUint64LE(ivfcOut.header.bytes, at))
                       = SumSeq([j \in 1..(k - 1) |-> ivfcOut.levels[j].size])
                 /\ Num(getBigUint64LE(ivfcOut.header.bytes, at + 8))
                       = IF k = 6 THEN ivfcData.len ELSE ivfcOut.levels[k].size

\* A tree over 513 blocks was built: level 5 holds 513 hashes in two blocks,
\* level 4 two hashes, levels 3 to 1 one hash each
C17_Witness ==
    /\ ivfcPc = "done"
    /\ ivfcData.len = 513 * 16384
    /\ Len(ivfcOut.levels[5].hashes) = 513
    /\ ivfcOut.levels[5].size = 32768
    /\ Len(ivfcOut.levels[4].hashes) = 2
    /\ Len(ivfcOut.levels[1].hashes) = 1
    /\ ivfcOut.totalLevelSize = 6 * 16384


\* ------------------------------------------------------------------------
\* assembleNca layout

\* The 0x200-padded extent of section i, from its length alone
PaddedExtent(i) == 512 * ((asmIn.sections[i].len + 511) \div 512)

\* C18: NCA layout.  Once assembleNca has written the header, section 0
\* starts at 0xC00 and every next section where the 0x200-padded extent of the
\* one before ends; entry i holds offset / 0x200 and (offset + padded size) /
\* 0x200, the end of one entry being the start of the next; the size field is
\* 0xC00 plus the padded sizes, the length of the envelope, and the size of
\* the result.
C18_NcaLayout ==
    (asmPc \notin {"idle", "layout", "header"}) =>
        /\ Len(sectionOffsets) = NSec /\ Len(nca.entries) = NSec
        /\ NSec >= 1 => sectionOffsets[1] = 3072
        /\ \A i \in 1..NSec :
              /\ nca.entries[i].startMedia * 512 = sectionOffsets[i]
              /\ nca.entries[i].endMedia * 512 = sectionOffsets[i] + PaddedExtent(i)
              /\ nca.body[i].len = PaddedExtent(i)
        /\ \A i \in 1..(NSec - 1) :
              /\ sectionOffsets[i + 1] = sectionOffsets[i] + PaddedExtent(i)
              /\ nca.entries[i].endMedia = nca.entries[i + 1].startMedia
        /\ nca.fields.size = 3072 + SumSeq([i \in 1..NSec |-> PaddedExtent(i)])
        /\ nca.fields.size = nca.size
        /\ asmPc = "done" => asmResult.size = nca.fields.size

\* An NCA of two sections, 513 bytes then 1 byte, was assembled
C18_Witness ==
    /\ asmPc = "done"
    /\ NSec = 2
    /\ asmIn.sections[1].len = 513 /\ asmIn.sections[2].len = 1
    /\ sectionOffsets = <<3072, 4096>>
    /\ asmResult.size = 4608


\* ------------------------------------------------------------------------
\* createProgramNca

\* What section number n (from 0) of the assembled NCA holds, "none" when the
\* NCA has no such section
SectionKind(n) == IF n + 1 <= NSec THEN asmIn.sections[n + 1].kind ELSE "none"

\* C19: Program NCA sections.  In the NCA createProgramNca returns, section
\* 0 is the ExeFS, section 1 the RomFS when one was given and section 2 the
\* Logo when logo files were given (entry, fsHeader, hash slot and section_ctr
\* number 2), the Logo with crypt_type 1 whatever `plaintext` is.
C19_ProgramSections ==
    (progIn # Zero /\ asmPc = "done") =>
        /\ SectionKind(0) = "exefs"
        /\ progIn.romfs = "data" => SectionKind(1) = "romfs"
        /\ progIn.romfs = "none" => SectionKind(1) # "romfs"
        /\ progIn.logo = "files" =>
              /\ SectionKind(2) = "logo"
              /\ nca.fsHdr[3].cryptType = 1
              /\ nca.fsHdr[3].sectionCtr = U32LEin8(2)
        /\ \A n \in 0..(NSec - 1) :
              SectionKind(n) = "logo" => nca.fsHdr[n + 1].cryptType = 1


\* ------------------------------------------------------------------------
\* processNpdm

\* The bytes at off are the four characters given
MagicAt(data, off, chars) ==
    off + 4 <= Len(data) /\ SubSeq(data, off + 1, off + 4) = chars

Aci0OffsetOf(data) == Num(getUint32LE(data, 112))

AcidOffsetOf(data) == Num(getUint32LE(data, 120))

\* META, ACI0 and ACID magics are all where the header says
NpdmMagicsRight ==
    /\ MagicAt(npdmIn.data, 0, <<77, 69, 84, 65>>)
    /\ MagicAt(npdmIn.data, Aci0OffsetOf(npdmIn.data), <<65, 67, 73, 48>>)
    /\ MagicAt(npdmIn.data, AcidOffsetOf(npdmIn.data) + 512, <<65, 67, 73, 68>>)

\* The u64 at aci0 + 0x10 lies within the image
NpdmTitleIdReadable == Aci0OffsetOf(npdmIn.data) + 24 <= Len(npdmIn.data)

\* The override when one is given, otherwise the u64 at aci0 + 0x10
EffectiveTitleId ==
    IF npdmIn.options.titleIdOverride # <<>>
    THEN npdmIn.options.titleIdOverride
    ELSE getBigUint64LE(npdmIn.data, Aci0OffsetOf(npdmIn.data) + 16)

\* A u64 lies in [0x0100000000000000, 0x0FFFFFFFFFFFFFFF] exactly when its
\* most significant byte lies in 0x01..0x0F
InTitleIdRange(titleId) == titleId[1] >= 1 /\ titleId[1] <= 15

\* C20: NPDM title id range.  processNpdm returns only when the three magics
\* are right and the effective title id (the override when one is given,
\* otherwise the u64 at aci0 + 0x10) lies in [0x0100000000000000,
\* 0x0FFFFFFFFFFFFFFF], and then info.titleId is the effective title id; with
\* a wrong META, ACI0 or ACID magic, or any other effective title id, it
\* throws and returns no data.
C20_NpdmTitleIdRange ==
    npdmPc = "done" =>
        /\ npdmOut.err = "none" =>
              /\ NpdmMagicsRight
              /\ NpdmTitleIdReadable
              /\ InTitleIdRange(EffectiveTitleId)
              /\ npdmOut.info.titleId = EffectiveTitleId
              /\ npdmOut.data # <<>>
        /\ (NpdmMagicsRight /\ NpdmTitleIdReadable /\ InTitleIdRange(EffectiveTitleId))
              => npdmOut.err = "none"
        /\ npdmOut.err # "none" => npdmOut.data = <<>> /\ npdmOut.info.titleId = <<>>

\* processNpdm returned for an override at the upper end of the range, the
\* title id in the image being below the range
C20_Witness ==
    /\ npdmPc = "done"
    /\ npdmOut.err = "none"
    /\ npdmIn.options.titleIdOverride = <<15, 255, 255, 255, 255, 255, 255, 255>>
    /\ getBigUint64LE(npdmIn.data, Aci0OffsetOf(npdmIn.data) + 16) = <<0, 0, 0, 0, 0, 0, 16, 0>>
    /\ npdmOut.info.titleId = <<15, 255, 255, 255, 255, 255, 255, 255>>


\* i (from 0) lies in [from, from + len)
InRange0(i, from, len) == i >= from /\ i < from + len

\* Byte i (from 0) of processNpdm's data, given the input image, where the
\* modulus is written when `patched` and the title id when `overridden`
\* without regard to each other
ExpectedNpdmByte(in, options, i) ==
    LET aci0 == Aci0OffsetOf(in)
        acid == AcidOffsetOf(in)
    IN IF options.patchAcidKey /\ InRange0(i, acid + 256, 256)
       THEN RSA_PUBLIC_KEY_MODULUS[i - (acid + 256) + 1]
       ELSE IF options.titleIdOverride # <<>> /\ InRange0(i, aci0 + 16, 8)
       THEN options.titleIdOverride[8 - (i - (aci0 + 16))]
       ELSE in[i + 1]

\* The title id field and the modulus field of the image share no byte
NpdmFieldsDisjoint(in) ==
    \/ Aci0OffsetOf(in) + 24 <= AcidOffsetOf(in) + 256
    \/ Aci0OffsetOf(in) + 16 >= AcidOffsetOf(in) + 512

\* C21 (as amended): the data processNpdm returns differs from the input only
\* in acid+0x100..acid+0x200, which holds the modulus when patchAcidKey is
\* true and the input's bytes otherwise, and in aci0+0x10..aci0+0x18, which
\* holds the override when one is given and the input's bytes otherwise;
\* where the two ranges overlap the modulus, written last, stands.  With
\* patchAcidKey false and no override the data equals the input.  The
\* caller's array is never changed.
C21_NpdmFrame ==
    [][(npdmPc = "call" /\ npdmPc' = "done") =>
          /\ npdmIn'.data = npdmIn.data
          /\ npdmOut'.err = "none" =>
                /\ Len(npdmOut'.data) = Len(npdmIn.data)
                /\ \A i \in 0..(Len(npdmIn.data) - 1) :
                      npdmOut'.data[i + 1]
                         = ExpectedNpdmByte(npdmIn.data, npdmIn.options, i)
                /\ (~ npdmIn.options.patchAcidKey /\ npdmIn.options.titleIdOverride = <<>>)
                      => npdmOut'.data = npdmIn.data]_vars

\* processNpdm returned with the modulus patched in and an override written
\* that differs from the title id in the image, the two fields apart
C21_Witness ==
    /\ npdmPc = "done"
    /\ npdmOut.err = "none"
    /\ npdmIn.options.patchAcidKey
    /\ npdmIn.options.titleIdOverride = <<1, 0, 0, 0, 0, 0, 16, 0>>
    /\ NpdmFieldsDisjoint(npdmIn.data)
    /\ getBigUint64LE(npdmIn.data, Aci0OffsetOf(npdmIn.data) + 16) = <<16, 0, 0, 0, 0, 0, 0, 0>>
    /\ getBigUint64LE(npdmOut.data, Aci0OffsetOf(npdmIn.data) + 16) = <<1, 0, 0, 0, 0, 0, 16, 0>>
    /\ SubSeq(npdmOut.data, AcidOffsetOf(npdmIn.data) + 257, AcidOffsetOf(npdmIn.data) + 512)
          = RSA_PUBLIC_KEY_MODULUS
    /\ npdmOut.data # npdmIn.data

\* C21 as stated: aci0+0x10..aci0+0x18 of the returned data holds the
\* override whenever one is given
C21_OverrideAlwaysStands ==
    [][(npdmPc = "call" /\ npdmPc' = "done" /\ npdmOut'.err = "none") =>
          /\ npdmIn'.data = npdmIn.data
          /\ npdmIn.options.patchAcidKey =>
                SubSeq(npdmOut'.data, AcidOffsetOf(npdmIn.data) + 257,
                       AcidOffsetOf(npdmIn.data) + 512) = RSA_PUBLIC_KEY_MODULUS
          /\ npdmIn.options.titleIdOverride # <<>> =>
                getBigUint64LE(npdmOut'.data, Aci0OffsetOf(npdmIn.data) + 16)
                   = npdmIn.options.titleIdOverride]_vars


\* ------------------------------------------------------------------------
\* Key derivation

\* The FullKeySet as loaded from the keyfile, before any derivation
KeysLoaded == loadKeySet(keysFile)

\* An entry holds what its rule computes when the rule's inputs are all
\* present, and what the keyfile gave it (or zeros) otherwise
RuleHolds(entry, inputs, value, loaded) ==
    IF \A v \in inputs : v # Zero THEN entry = value ELSE entry = loaded

\* ECB-dec(key, data)
EcbDec(key, data) == [prim |-> "aes-ecb-dec", key |-> key, of |-> data]

\* The key-generation function of section 4.2: kek = ECB-dec(ECB-dec(masterKey,
\* aesKekGenerationSource), source), key = ECB-dec(kek, aesKeyGenerationSource)
Gen(ks, masterKey, source) ==
    EcbDec(EcbDec(EcbDec(masterKey, ks.aesKekGenerationSource), source),
           ks.aesKeyGenerationSource)

KeyblobKeysRule ==
    \A i \in OldGens :
        RuleHolds(keysFull.keyblobKeys[i],
                  {keysFull.secureBootKey, keysFull.tsecKey, keysFull.keyblobKeySources[i]},
                  EcbDec(keysFull.secureBootKey, EcbDec(keysFull.tsecKey, keysFull.keyblobKeySources[i])),
                  KeysLoaded.keyblobKeys[i])

KeyblobMacKeysRule ==
    \A i \in OldGens :
        RuleHolds(keysFull.keyblobMacKeys[i],
                  {keysFull.keyblobKeys[i], keysFull.keyblobMacKeySources},
                  EcbDec(keysFull.keyblobKeys[i], keysFull.keyblobMacKeySources),
                  KeysLoaded.keyblobMacKeys[i])

KeyblobsRule ==
    \A i \in OldGens :
        RuleHolds(keysFull.keyblobs[i],
                  {keysFull.keyblobKeys[i], keysFull.encryptedKeyblobs[i]},
                  [prim |-> "subarray",
                   of |-> [prim |-> "aes-ctr", key |-> keysFull.keyblobKeys[i],
                           ctr |-> [prim |-> "subarray", of |-> keysFull.encryptedKeyblobs[i],
                                    from |-> 16, to |-> 32],
                           of |-> [prim |-> "subarray", of |-> keysFull.encryptedKeyblobs[i],
                                   from |-> 32, to |-> 176]],
                   from |-> 0, to |-> 144],
                  KeysLoaded.keyblobs[i])

FromKeyblobsRule ==
    \A i \in OldGens :
        /\ RuleHolds(keysFull.package1Keys[i], {keysFull.keyblobs[i]},
                     [prim |-> "subarray", of |-> keysFull.keyblobs[i], from |-> 128, to |-> 144],
                     KeysLoaded.package1Keys[i])
        /\ RuleHolds(keysFull.masterKeks[i], {keysFull.keyblobs[i]},
                     [prim |-> "subarray", of |-> keysFull.keyblobs[i], from |-> 0, to |-> 16],
                     KeysLoaded.masterKeks[i])

TsecRootKeysRule ==
    \A i \in NewGens :
        RuleHolds(keysFull.tsecRootKeys[i - 6],
                  {keysFull.tsecRootKek, keysFull.tsecAuthSignatures[i - 6]},
                  [prim |-> "aes-ecb", key |-> keysFull.tsecRootKek,
                   of |-> keysFull.tsecAuthSignatures[i - 6]],
                  Zero)

NewMasterKeksRule ==
    \A i \in NewGens :
        RuleHolds(keysFull.masterKeks[i],
                  {keysFull.tsecRootKeys[i - 6], keysFull.masterKekSources[i]},
                  EcbDec(keysFull.tsecRootKeys[i - 6], keysFull.masterKekSources[i]),
                  KeysLoaded.masterKeks[i])

MasterKeysRule ==
    \A i \in KeyGens :
        RuleHolds(keysFull.masterKeys[i],
                  {keysFull.masterKeks[i], keysFull.masterKeySource},
                  EcbDec(keysFull.masterKeks[i], keysFull.masterKeySource),
                  KeysLoaded.masterKeys[i])

KeyAreaKeysRule ==
    \A i \in KeyGens :
        LET sources == <<keysFull.keyAreaKeyApplicationSource,
                         keysFull.keyAreaKeyOceanSource,
                         keysFull.keyAreaKeySystemSource>>
        IN \A v \in 1..3 :
              RuleHolds(keysFull.keyAreaKeys[i][v],
                        {keysFull.masterKeys[i], keysFull.aesKekGenerationSource,
                         sources[v], keysFull.aesKeyGenerationSource},
                        Gen(keysFull, keysFull.masterKeys[i], sources[v]),
                        KeysLoaded.keyAreaKeys[i][v])

HeaderKeyRule ==
        RuleHolds(keysFull.headerKey,
                  {keysFull.masterKeys[0], keysFull.aesKekGenerationSource,
                   keysFull.aesKeyGenerationSource, keysFull.headerKekSource,
                   keysFull.headerKeySource},
                  EcbDec(Gen(keysFull, keysFull.masterKeys[0], keysFull.headerKekSource),
                         keysFull.headerKeySource),
                  KeysLoaded.headerKey)

DirectKeysRule ==
    keysFile = {"header_key", "key_area_key_application_00"} =>
        /\ keysOut.headerKey = Given("header_key")
        /\ keysOut.keyAreaKeys[0][1] = Given("key_area_key_application_00")

\* C22: key derivation chain.  After initializeKeySet every entry of the
\* chain whose rule inputs are all present holds the value its rule computes,
\* and every entry with a missing input keeps the value the keyfile gave it
\* or stays zero; a header_key and key_area_key_application_00 given directly,
\* with nothing else, are returned unchanged.
C22_DerivationChain ==
    keysPc = "done" =>
        /\ KeyblobKeysRule
        /\ KeyblobMacKeysRule
        /\ KeyblobsRule
        /\ FromKeyblobsRule
        /\ TsecRootKeysRule
        /\ NewMasterKeksRule
        /\ MasterKeysRule
        /\ KeyAreaKeysRule
        /\ HeaderKeyRule
        /\ DirectKeysRule
        /\ keysOut.headerKey = keysFull.headerKey
        /\ keysOut.keyAreaKeys = keysFull.keyAreaKeys


\* ------------------------------------------------------------------------
\* Keyfile values

\* The value the keyfile gives is an even number of hex digits
WellFormedHex(value) ==
    /\ Len(value) % 2 = 0
    /\ \A j \in 1..Len(value) : value[j] \in {"0", "1", "a", "f", "F"}

\* C23: non-hex keyfile values.  A keyfile value with a character that is no
\* hex digit, or with an odd number of hex digits, makes key loading fail;
\* it is never turned into key bytes.
C23_NonHexRejected ==
    (kfPc = "done" /\ ~ WellFormedHex(trim(kfText))) => kfOut.err # "none"


\* ------------------------------------------------------------------------
\* CNMT

\* DataView.getUint16(off, true) as bytes, most significant first
getUint16LE(buf, off) == <<buf[off + 2], buf[off + 1]>>

\* Where content record k (from 1) starts in the CNMT
RecordOffset(k) == 48 + 56 * (k - 1)

\* The six bytes of a size below 2^48, most significant first
SizeBytes48(size) ==
    <<size[2] \div 256, size[2] % 256, size[3] \div 256, size[3] % 256,
      size[4] \div 256, size[4] % 256>>

\* C24: CNMT size field.  For every content record whose size is below 2^48,
\* the u16 at record + 0x34 and the u32 at record + 0x30 of the built CNMT,
\* read little-endian, are the high 16 and the low 32 bits of the size, so
\* low + high * 2^32 is the size given.
C24_SizeRoundTrip ==
    cnmtPc = "done" =>
        \A k \in 1..Len(cnmtIn.contentRecords) :
            cnmtIn.contentRecords[k].size[1] = 0 =>
                getUint16LE(cnmtOut, RecordOffset(k) + 52)
                      \o getUint32LE(cnmtOut, RecordOffset(k) + 48)
                   = SizeBytes48(cnmtIn.contentRecords[k].size)

\* A CNMT was built whose second record has a size with bit 31 set (so that
\* `size & 0xffffffff` is negative) and a high part that needs both bytes
C24_Witness ==
    /\ cnmtPc = "done"
    /\ Len(cnmtIn.contentRecords) = 2
    /\ cnmtIn.contentRecords[2].size = <<0, 65535, 32768, 1>>
    /\ getUint32LE(cnmtOut, RecordOffset(2) + 48) = <<128, 0, 0, 1>>
    /\ getUint16LE(cnmtOut, RecordOffset(2) + 52) = <<255, 255>>


\* ------------------------------------------------------------------------
\* XCI

\* parseXci got past its magic check
XciMagicAccepted == xciOut.err \notin {"Not an XCI file", "RangeError"}

\* The blob is an HFS0 at the place given
IsHfs0(blob) == blob.magic = <<72, 70, 83, 48>>

\* The root HFS0 parseXci is to use: the one at 0xF000, else the one at
\* 0x10000
XciRootOf(blob) == IF IsHfs0(blob.atF000) THEN blob.atF000 ELSE blob.at10000

\* C25: XCI parsing.  parseXci goes on exactly when the bytes at 0x100 are
\* 'H','E','A','D' in file order; it then uses the root HFS0 at 0xF000, or
\* the one at 0x10000 when there is none at 0xF000, and fails when there is
\* none at either; it fails unless a root entry named "secure" exists, and
\* returns the files of that entry as `files`.
C25_XciParsing ==
    xciPc = "done" =>
        /\ XciMagicAccepted <=> xciBlob.magic = <<72, 69, 65, 68>>
        /\ XciMagicAccepted =>
              /\ (~ IsHfs0(xciBlob.atF000) /\ ~ IsHfs0(xciBlob.at10000)) => xciOut.err # "none"
              /\ xciOut.err = "none" =>
                    /\ xciOut.rootOffset = (IF IsHfs0(xciBlob.atF000) THEN 61440 ELSE 65536)
                    /\ \E k \in 1..Len(XciRootOf(xciBlob).entries) :
                          XciRootOf(xciBlob).entries[k].name = "secure"
                    /\ \E k \in 1..Len(xciOut.partitions) :
                          /\ xciOut.partitions[k].name = "secure"
                          /\ xciOut.files = xciOut.partitions[k].files
              /\ (\A k \in 1..Len(XciRootOf(xciBlob).entries) :
                     XciRootOf(xciBlob).entries[k].name # "secure") => xciOut.err # "none"

\* The same with the magic the code accepts: the bytes 'D','A','E','H'
XciParsingAfterMagic ==
    xciPc = "done" =>
        /\ XciMagicAccepted <=> xciBlob.magic = <<68, 65, 69, 72>>
        /\ XciMagicAccepted =>
              /\ (~ IsHfs0(xciBlob.atF000) /\ ~ IsHfs0(xciBlob.at10000)) => xciOut.err # "none"
              /\ xciOut.err = "none" =>
                    /\ xciOut.rootOffset = (IF IsHfs0(xciBlob.atF000) THEN 61440 ELSE 65536)
                    /\ \E k \in 1..Len(XciRootOf(xciBlob).entries) :
                          XciRootOf(xciBlob).entries[k].name = "secure"
                    /\ \E k \in 1..Len(xciOut.partitions) :
                          /\ xciOut.partitions[k].name = "secure"
                          /\ xciOut.files = xciOut.partitions[k].files
              /\ (\A k \in 1..Len(XciRootOf(xciBlob).entries) :
                     XciRootOf(xciBlob).entries[k].name # "secure") => xciOut.err # "none"


\* ------------------------------------------------------------------------
\* Tweak doubling

\* C26 as stated: doubling 0x01 0x00..0x00 gives 0x02 0x00..0x00, and
\* doubling 0x80 0x00..0x00 gives 0x00..0x00 0x87.
C26_DoublingAsStated ==
    gfCount = 1 =>
        /\ gfIn = OneByte(0, 1) => gfBlock = OneByte(0, 2)
        /\ gfIn = OneByte(0, 128) => gfBlock = OneByte(15, 135)

\* C26: GF(2^128) doubling.  Doubling 0x01 0x00..0x00 gives 0x02 0x00..0x00;
\* doubling 0x00..0x00 0x80 (byte 15 is 0x80) gives 0x87 0x00..0x00; every
\* byte is shifted left by one with the top bit of the byte before it
\* shifted in, and byte 0 is XORed with 0x87 exactly when the top bit of
\* byte 15 was set.
C26_Doubling ==
    gfCount = 1 =>
        /\ gfIn = OneByte(0, 1) => gfBlock = OneByte(0, 2)
        /\ gfIn = OneByte(15, 128) => gfBlock = OneByte(0, 135)
        /\ \A i \in 1..15 : gfBlock[i + 1] = ((2 * gfIn[i + 1]) % 256) + (gfIn[i] \div 128)
        /\ gfBlock[1] = ByteXor((2 * gfIn[1]) % 256, IF gfIn[16] >= 128 THEN 135 ELSE 0)

C26_Witness == gfCount = 1 /\ gfIn = OneByte(15, 128) /\ gfBlock = OneByte(0, 135)


\* ------------------------------------------------------------------------
\* NCZ reencrypt

\* Section i of the table contains the offset
ReCovers(i, offset) ==
    /\ offset >= reSections[i].offset
    /\ offset < reSections[i].offset + reSections[i].size

\* What an iteration at the current offset is to do
ReStepRight ==
    LET off == reBodyOffset + reDataOff
    IN IF \A i \in 1..Len(reSections) : ~ ReCovers(i, off)
       THEN rePc' \in {"NoSectionForOffset"}
       ELSE LET i == CHOOSE i \in 1..Len(reSections) :
                        ReCovers(i, off) /\ \A j \in 1..(i - 1) : ~ ReCovers(j, off)
                n == Min(reSections[i].offset + reSections[i].size - off,
                         BLen(reData) - reDataOff)
            IN \/ rePc' = "aes" /\ reSections[i].cryptoType >= 3
               \/ /\ rePc' = "loop"
                  /\ n >= 1
                  /\ reLast' = [index |-> i, currentOffset |-> off, chunkLen |-> n]
                  /\ reDataOff' = reDataOff + n
                  /\ Plain(reResult') = Plain(reResult) \o <<Run("body", off, n)>>
                  /\ \A k \in (Len(reResult) + 1)..Len(reResult') :
                        reResult'[k].key =
                            (IF reSections[i].cryptoType >= 3 THEN reSections[i].key ELSE <<>>)

\* C27: NCZ re-encryption.  reencrypt of L bytes at offset O always ends;
\* when it returns, it returns exactly L bytes, the bytes of the input in
\* order; every iteration takes the first section in table order that
\* contains the current offset, handles min(section end - current offset,
\* bytes left) >= 1 bytes with it (AES-CTR when cryptoType >= 3, a copy
\* otherwise) and advances by that many; it fails with the no-section error
\* exactly when the current offset lies in no section.
C27_Reencrypt ==
    /\ [][(rePc = "loop" /\ reDataOff < BLen(reData)) => ReStepRight]_vars
    /\ [](rePc = "returned" =>
            /\ BLen(reResult) = BLen(reData)
            /\ BNorm(Plain(reResult)) = reData
            /\ reResult = ReencryptFrom(reSections, TRUE, reData, reBodyOffset, 0, <<>>).out)
    /\ [](rePc = "NoSectionForOffset" =>
            \A i \in 1..Len(reSections) : ~ ReCovers(i, reBodyOffset + reDataOff))
    /\ (rePc = "loop") ~> (rePc \in {"returned", "NoSectionForOffset", "aes"})

\* A chunk that spans two sections, the second found past an overlap
C27_Witness ==
    /\ rePc = "returned"
    /\ reLast.index = 2
    /\ reLast.currentOffset > reBodyOffset
    /\ Len(reResult) = 2


\* ------------------------------------------------------------------------
\* NCZ block mode, the size test

\* a mod 2^e
WideMod2(a, e) ==
    IF e >= 16 THEN [q |-> a.q % Pow2(e - 16), r |-> a.r] ELSE [q |-> 0, r |-> a.r % Pow2(e)]

\* The size block i (counted from 0) is to decompress to
BsExpectedOf(i) ==
    IF i = Len(bsSizes) - 1 /\ WideMod2(bsDsize, bsExp) # Wide(0)
    THEN WideMod2(bsDsize, bsExp)
    ELSE WidePow2(bsExp)

\* The same for the exponents given
BsSizeTestRight(exps) ==
    (bsPc = "blocks" /\ bsExp \in exps) =>
        \A i \in 0..(Len(bsExpected) - 1) :
            /\ bsExpected[i + 1] = BsExpectedOf(i)
            /\ bsCompressed[i + 1] <=> WideLess(bsSizes[i + 1], BsExpectedOf(i))

\* C28: NCZ block mode.  For every accepted exponent e in [14, 32] and every
\* block i, the expected decompressed size is 2^e, except that for the last
\* block it is decompressedSize mod 2^e when that is not zero; block i is
\* decompressed exactly when its compressed size is below that size.
C28_BlockSizeTest ==
    /\ bsPc = "blocks" => (bsExp >= 14 /\ bsExp <= 32)
    /\ (bsPc = "header" \/ bsPc = "blocks" \/ bsExp < 14 \/ bsExp > 32)
    /\ BsSizeTestRight(14..32)

\* The same for the exponents up to 30
BlockSizeTestTo30 == BsSizeTestRight(14..30)


\* ------------------------------------------------------------------------
\* RomFS chains

\* The indexes of the entries met from offset `off` on, following the
\* sibling links (or the hash links when byHash); a 0 marks a chain that
\* leaves the table or does not end within `fuel` steps
RECURSIVE RomChain(_, _, _, _)
RomChain(table, off, byHash, fuel) ==
    IF off = ROMFS_ENTRY_EMPTY THEN <<>>
    ELSE IF fuel = 0 \/ \A i \in 1..Len(table) : table[i].offset # off THEN <<0>>
    ELSE LET i == CHOOSE i \in 1..Len(table) : table[i].offset = off
         IN <<i>> \o RomChain(table, IF byHash THEN table[i].hashSiblingOffset
                                     ELSE table[i].siblingOffset,
                              byHash, fuel - 1)

\* The chain is whole, and its entries are those named `names` below the
\* directory at parentOffset, each once, in ascending name order
RomChainIs(table, chain, names, parentOffset) ==
    /\ \A k \in 1..Len(chain) : chain[k] # 0
    /\ \A k \in 1..Len(chain) : table[chain[k]].parentOffset = parentOffset
    /\ {table[chain[k]].name : k \in 1..Len(chain)} = names
    /\ Len(chain) = Cardinality(names)
    /\ \A k \in 1..(Len(chain) - 1) : LexLess(table[chain[k]].name, table[chain[k + 1]].name)

\* Every entry of the table is met exactly once on the chain of the bucket
\* its hash names, and every bucket's chain is whole
RomHashTableRight(table, buckets, rootIdx) ==
    /\ \A b \in 1..Len(buckets) :
          \A k \in 1..Len(RomChain(table, buckets[b], TRUE, Len(table))) :
              RomChain(table, buckets[b], TRUE, Len(table))[k] # 0
    /\ \A i \in 1..Len(table) :
          LET hash == calcPathHash(table[i].parentOffset,
                                   IF i = rootIdx THEN <<>> ELSE <<47>> \o table[i].name,
                                   1, table[i].nameSize)
              b == (((hash.hi % Len(buckets)) * (65536 % Len(buckets))) + hash.lo)
                      % Len(buckets)
              chain == RomChain(table, buckets[b + 1], TRUE, Len(table))
          IN Cardinality({k \in 1..Len(chain) : chain[k] = i}) = 1

RomDirNames(fs) == {n \in DOMAIN fs : fs[n].kind = "dir"}

RomFileNames(fs) == {n \in DOMAIN fs : fs[n].kind = "file"}

\* C29: RomFS chains.  In an encoded image, for every directory the chain
\* from childOffset along siblingOffset holds exactly its sub-directories and
\* the chain from fileOffset along siblingOffset exactly its files, each
\* once, in ascending name order, ending at 0xFFFFFFFF; every directory entry
\* (the root too) and every file entry is met exactly once on the chain of
\* the bucket hash(parentOffset, name) mod bucketCount of its hash table
\* along hashSiblingOffset, and every bucket chain ends at 0xFFFFFFFF.
C29_RomChains ==
    romPc \in {"decode", "done"} =>
        LET dirs == romImage.dirTable
            files == romImage.fileTable
            subdirs == RomChain(dirs, dirs[1].childOffset, FALSE, Len(dirs))
        IN /\ dirs[1].offset = 0
           /\ RomChainIs(dirs, subdirs, RomDirNames(romFs), 0)
           /\ RomChainIs(files, RomChain(files, dirs[1].fileOffset, FALSE, Len(files)),
                         RomFileNames(romFs), 0)
           /\ \A k \in 1..Len(subdirs) :
                 LET d == dirs[subdirs[k]]
                 IN /\ d.childOffset = ROMFS_ENTRY_EMPTY
                    /\ RomChainIs(files, RomChain(files, d.fileOffset, FALSE, Len(files)),
                                  DOMAIN romFs[d.name].entries, d.offset)
           /\ Len(dirs) = 1 + Cardinality(RomDirNames(romFs))
           /\ RomHashTableRight(dirs, romImage.dirHashTable, 1)
           /\ RomHashTableRight(files, romImage.fileHashTable, 0)

\* Two sub-directories, one of them with two files, and a bucket of the
\* file hash table with more than one entry on its chain
C29_Witness ==
    /\ romPc = "done"
    /\ Cardinality(RomDirNames(romFs)) = 2
    /\ \E n \in RomDirNames(romFs) : Cardinality(DOMAIN romFs[n].entries) = 2
    /\ \E b \in 1..Len(romImage.fileHashTable) :
          Len(RomChain(romImage.fileTable, romImage.fileHashTable[b], TRUE,
                       Len(romImage.fileTable))) >= 2


\* ------------------------------------------------------------------------
\* The cached signing key

\* C30: the signing key is initialised once.  Whatever the number of rsaSign
\* calls and however they interleave at their awaits, importKey is called at
\* most once, and every call signs with the one cached key handle.
C30_ImportedOnce ==
    /\ rsaImports <= 1
    /\ \A c \in RsaCalls : rsaPc[c] \in {"signing", "done"} => rsaKey[c] = cachedKey

\* A call that starts once some import has resolved imports nothing and
\* signs with the handle cached then
RsaCachedKeyReused ==
    [][\A c \in RsaCalls :
          (cachedKey # 0 /\ rsaPc[c] = "start" /\ rsaPc'[c] # "start")
              => (rsaImports' = rsaImports /\ rsaKey'[c] = cachedKey)]_vars

====
